---- MODULE Spec2Model ----
(***************************************************************************)
(* Evarra backend service: the wallet and goal record services             *)
(* (src/src/services/walletService.js, src/src/services/goalService.js)    *)
(* over the document store, modelled as a state machine.                   *)
(*                                                                         *)
(* Strings of the program are sequences of one-character strings, so that  *)
(* toLowerCase, trim and the address regular expressions are computed      *)
(* character by character.                                                 *)
(***************************************************************************)
EXTENDS Integers, Sequences, FiniteSets, TLC

VARIABLES
    users,      \* _id of every document of the users collection
    wallets,    \* documents of the wallets collection
    goals,      \* documents of the goals collection
    nextId,     \* the next ObjectId the store hands out on insertOne
    now,        \* the clock read by new Date(); only Tick advances it
    lastOp,     \* the last service call and how it ended
    hadSubgoals,\* goals whose deleteGoal was rejected because of subgoals
    pc,         \* position of each concurrent request
    req,        \* payload of each concurrent request
    cache,      \* the CacheService, its environment and its two collections
    conn,       \* the storage connection of each service instance
    userDocs,   \* username and email of every document of the users collection
    retry       \* the ErrorHandler.withRetry call in progress

vars ==
    <<users, wallets, goals, nextId, now, lastOp, hadSubgoals, pc, req, cache,
      conn, userDocs, retry>>

\* Bounds of the model
MaxWallets == 2    \* wallets ever inserted
MaxGoals == 2      \* goals ever inserted

----------------------------------------------------------------------------
(* JavaScript strings *)

Undefined == <<"undefined">>

UpperChars == <<"A","B","C","D","E","F","G","H","I","J","K","L","M",
                "N","O","P","Q","R","S","T","U","V","W","X","Y","Z">>
LowerChars == <<"a","b","c","d","e","f","g","h","i","j","k","l","m",
                "n","o","p","q","r","s","t","u","v","w","x","y","z">>
DigitChars == {"0","1","2","3","4","5","6","7","8","9"}

Range(f) == {f[i] : i \in DOMAIN f}

\* the characters that occur in the strings of the model
Chars == Range(UpperChars) \cup Range(LowerChars) \cup DigitChars \cup {" "}

ToLowerChar ==
    [c \in Chars |->
        IF \E i \in DOMAIN UpperChars : UpperChars[i] = c
        THEN LowerChars[CHOOSE i \in DOMAIN UpperChars : UpperChars[i] = c]
        ELSE c]

\* String.prototype.toLowerCase
toLowerCase(s) == [i \in 1..Len(s) |-> ToLowerChar[s[i]]]

ToUpperChar ==
    [c \in Chars |->
        IF \E i \in DOMAIN LowerChars : LowerChars[i] = c
        THEN UpperChars[CHOOSE i \in DOMAIN LowerChars : LowerChars[i] = c]
        ELSE c]

\* String.prototype.toUpperCase
toUpperCase(s) == [i \in 1..Len(s) |-> ToUpperChar[s[i]]]

IsSpace(c) == c = " "

RECURSIVE trimStart(_)
trimStart(s) ==
    IF s # <<>> /\ IsSpace(s[1]) THEN trimStart(Tail(s)) ELSE s

RECURSIVE trimEnd(_)
trimEnd(s) ==
    IF s # <<>> /\ IsSpace(s[Len(s)])
    THEN trimEnd(SubSeq(s, 1, Len(s) - 1)) ELSE s

\* String.prototype.trim
trim(s) == trimEnd(trimStart(s))

\* !x for a string-or-undefined value
Falsy(s) == s = Undefined \/ s = <<>>

Rep(c, n) == [i \in 1..n |-> c]

----------------------------------------------------------------------------
(* Address shape rules: MongoDBWalletService.validateAddressByChain *)

EthHexLen == 40
SuiHexLen == 64
BtcMinLen == 25
BtcMaxLen == 34
Bech32MinLen == 39
Bech32MaxLen == 59
SolMinLen == 32
SolMaxLen == 44

HexChars == DigitChars \cup {"a","b","c","d","e","f","A","B","C","D","E","F"}

\* [a-km-zA-HJ-NP-Z1-9]
Base58Chars ==
    ((Range(LowerChars) \ {"l"}) \cup (Range(UpperChars) \ {"I","O"})
        \cup DigitChars) \ {"0"}

\* [a-z0-9]
Bech32Chars == Range(LowerChars) \cup DigitChars

AllIn(s, from, cls) == \A i \in from..Len(s) : s[i] \in cls

\* /^0x[a-fA-F0-9]{n,}$/: a rule without the upper limit
MatchesHex_AtLeast(s, n) ==
    /\ Len(s) >= n + 2
    /\ s[1] = "0"
    /\ s[2] = "x"
    /\ AllIn(s, 3, HexChars)

\* /^0x[a-fA-F0-9]{n}$/
MatchesHex(s, n) ==
    /\ Len(s) = n + 2
    /\ s[1] = "0"
    /\ s[2] = "x"
    /\ AllIn(s, 3, HexChars)

\* /^[13][a-km-zA-HJ-NP-Z1-9]{25,34}$|^bc1[a-z0-9]{39,59}$/
MatchesBitcoin(s) ==
    \/ /\ Len(s) >= 1 + BtcMinLen
       /\ Len(s) <= 1 + BtcMaxLen
       /\ s[1] \in {"1", "3"}
       /\ AllIn(s, 2, Base58Chars)
    \/ /\ Len(s) >= 3 + Bech32MinLen
       /\ Len(s) <= 3 + Bech32MaxLen
       /\ SubSeq(s, 1, 3) = <<"b","c","1">>
       /\ AllIn(s, 4, Bech32Chars)

\* /^[1-9A-HJ-NP-Za-km-z]{32,44}$/
MatchesSolana(s) ==
    /\ Len(s) >= SolMinLen
    /\ Len(s) <= SolMaxLen
    /\ AllIn(s, 1, Base58Chars)

Ethereum == <<"e","t","h","e","r","e","u","m">>
Bitcoin  == <<"b","i","t","c","o","i","n">>
Solana   == <<"s","o","l","a","n","a">>
Sui      == <<"s","u","i">>
Aptos    == <<"a","p","t","o","s">>
Polygon  == <<"p","o","l","y","g","o","n">>
Arbitrum == <<"a","r","b","i","t","r","u","m">>
Optimism == <<"o","p","t","i","m","i","s","m">>
Base     == <<"b","a","s","e">>

supportedChains ==
    {Ethereum, Bitcoin, Solana, Sui, Aptos, Polygon, Arbitrum, Optimism, Base}

Null == "null"

\* a method call on undefined
TypeError == "TypeError"

validateAddressByChain(address, chain) ==
    IF chain = Undefined THEN TypeError ELSE
    LET normalizedChain == toLowerCase(chain)
    IN  CASE normalizedChain = Sui ->
                IF MatchesHex(address, SuiHexLen) THEN Null
                ELSE "Invalid SUI address format"
          [] normalizedChain \in {Ethereum, Polygon, Arbitrum, Optimism, Base} ->
                IF MatchesHex(address, EthHexLen) THEN Null
                ELSE "Invalid Ethereum address format"
          [] normalizedChain = Bitcoin ->
                IF MatchesBitcoin(address) THEN Null
                ELSE "Invalid Bitcoin address format"
          [] normalizedChain = Solana ->
                IF MatchesSolana(address) THEN Null
                ELSE "Invalid Solana address format"
          [] normalizedChain = Aptos ->
                IF MatchesHex(address, SuiHexLen) THEN Null
                ELSE "Invalid Aptos address format"
          [] OTHER -> "Unsupported blockchain chain"

\* validateWalletData calls walletData.chain.toLowerCase() unguarded
validateWalletDataThrows(walletData) == walletData.chain = Undefined

\* MongoDBWalletService.validateWalletData: the list of failed checks (of a
\* payload on which it does not throw)
validateWalletData(walletData) ==
    (IF Falsy(walletData.label) \/ Len(trim(walletData.label)) = 0
        THEN <<"Wallet label is required">> ELSE <<>>)
    \o (IF Falsy(walletData.address) \/ Len(trim(walletData.address)) = 0
        THEN <<"Wallet address is required">> ELSE <<>>)
    \o (IF Falsy(walletData.chain) \/ Len(trim(walletData.chain)) = 0
        THEN <<"Blockchain chain is required">> ELSE <<>>)
    \o (IF toLowerCase(walletData.chain) \notin supportedChains
        THEN <<"Unsupported chain">> ELSE <<>>)
    \o (IF ~Falsy(walletData.address) /\ ~Falsy(walletData.chain)
           /\ validateAddressByChain(walletData.address, walletData.chain) # Null
        THEN <<validateAddressByChain(walletData.address, walletData.chain)>>
        ELSE <<>>)

----------------------------------------------------------------------------
(* The shared validator: utils/validation.ts *)

\* a base58 rule that accepts any first character of the alphabet
MatchesBitcoinBase58_AnyHead(s) ==
    /\ Len(s) >= 1 + BtcMinLen
    /\ Len(s) <= 1 + BtcMaxLen
    /\ AllIn(s, 1, Base58Chars)

\* /^[13][a-km-zA-HJ-NP-Z1-9]{25,34}$/
MatchesBitcoinBase58(s) ==
    /\ Len(s) >= 1 + BtcMinLen
    /\ Len(s) <= 1 + BtcMaxLen
    /\ s[1] \in {"1", "3"}
    /\ AllIn(s, 2, Base58Chars)

\* sharedValidators.ethereumAddress, suiAddress, bitcoinAddress,
\* solanaAddress, aptosAddress
ethereumAddress(address) ==
    IF ~MatchesHex(address, EthHexLen) THEN "Invalid Ethereum address" ELSE Null
suiAddress(address) ==
    IF ~MatchesHex(address, SuiHexLen) THEN "Invalid Sui address" ELSE Null
bitcoinAddress(address) ==
    IF ~MatchesBitcoinBase58(address) THEN "Invalid Bitcoin address" ELSE Null
solanaAddress(address) ==
    IF ~MatchesSolana(address) THEN "Invalid Solana address" ELSE Null
aptosAddress(address) ==
    IF ~MatchesHex(address, SuiHexLen) THEN "Invalid Aptos address" ELSE Null

\* utils/validation validateAddressByChain
utilsValidateAddressByChain(address, chain) ==
    IF chain = Undefined THEN TypeError ELSE
    LET normalizedChain == toUpperCase(trim(chain))
    IN  CASE normalizedChain \in {<<"E","T","H","E","R","E","U","M">>,
                                  <<"E","T","H">>,
                                  <<"P","O","L","Y","G","O","N">>,
                                  <<"M","A","T","I","C">>,
                                  <<"A","R","B","I","T","R","U","M">>,
                                  <<"O","P","T","I","M","I","S","M">>,
                                  <<"B","A","S","E">>} ->
                ethereumAddress(address)
          [] normalizedChain \in {<<"B","I","T","C","O","I","N">>, <<"B","T","C">>} ->
                bitcoinAddress(address)
          [] normalizedChain \in {<<"S","O","L","A","N","A">>, <<"S","O","L">>} ->
                solanaAddress(address)
          [] normalizedChain = <<"S","U","I">> -> suiAddress(address)
          [] normalizedChain = <<"A","P","T","O","S">> -> aptosAddress(address)
          [] OTHER -> "Unsupported blockchain network"

\* a call of one of the two validateAddressByChain
ValidateAddressByChain(impl, address, chain) ==
    /\ lastOp' = [op |-> "validateAddressByChain", impl |-> impl,
                  address |-> address, chain |-> chain,
                  res |-> IF impl = "utils"
                          THEN utilsValidateAddressByChain(address, chain)
                          ELSE validateAddressByChain(address, chain)]
    /\ UNCHANGED <<cache, users, wallets, goals, nextId, now, hadSubgoals,
                   pc, req,
                       conn, userDocs, retry>>

\* a call of validateWalletData
ValidateWalletData(walletData) ==
    /\ lastOp' = [op |-> "validateWalletData", data |-> walletData,
                  threw |-> validateWalletDataThrows(walletData),
                  res |-> IF validateWalletDataThrows(walletData) THEN <<>>
                          ELSE validateWalletData(walletData)]
    /\ UNCHANGED <<cache, users, wallets, goals, nextId, now, hadSubgoals,
                   pc, req,
                       conn, userDocs, retry>>

----------------------------------------------------------------------------
(* MongoDBWalletService over the wallets and users collections *)

\* ObjectId.isValid: ids are numbered from 1; 0 stands for a malformed id
ObjectIdIsValid(id) == id >= 1

DuplicateWalletError ==
    "Wallet with this address and chain already exists for this user"

\* a findOne that compares the address as the caller wrote it
existingWalletOnCreate_CaseSensitive(walletData) ==
    \E w \in wallets :
        /\ w.userId = walletData.user_id
        /\ w.address = walletData.address
        /\ w.chain = walletData.chain

\* createWallet's findOne({userId, address, chain})
existingWalletOnCreate(walletData) ==
    \E w \in wallets :
        /\ w.userId = walletData.user_id
        /\ w.address = toLowerCase(walletData.address)
        /\ w.chain = toLowerCase(walletData.chain)

\* a document that keeps the label as the caller wrote it
newWallet_RawLabel(walletData, id) ==
    [ id         |-> id,
      userId     |-> walletData.user_id,
      address    |-> trim(toLowerCase(walletData.address)),
      label      |-> walletData.label,
      chain      |-> trim(toLowerCase(walletData.chain)),
      createdAt  |-> now,
      updatedAt  |-> now,
      updated_at |-> {} ]

\* the document createWallet inserts
newWallet(walletData, id) ==
    [ id         |-> id,
      userId     |-> walletData.user_id,
      address    |-> trim(toLowerCase(walletData.address)),
      label      |-> trim(walletData.label),
      chain      |-> trim(toLowerCase(walletData.chain)),
      createdAt  |-> now,
      updatedAt  |-> now,
      updated_at |-> {} ]

\* an insertOne into a collection with a unique index on
\* (userId, address, chain)
insertOne_UniqueIndex(collection, doc) ==
    IF \E w \in collection : /\ w.userId = doc.userId
                              /\ w.address = doc.address
                              /\ w.chain = doc.chain
    THEN collection
    ELSE collection \cup {doc}

\* collection.insertOne(newWallet): the wallets collection has no unique
\* index, the document is always added
insertOne(collection, doc) == collection \cup {doc}

\* errors.join(', '): the items with the separator between them
RECURSIVE join(_)
join(errors) ==
    IF Len(errors) = 0 THEN <<>>
    ELSE IF Len(errors) = 1 THEN errors
    ELSE <<Head(errors), ", ">> \o join(Tail(errors))

\* the message of the error createWallet and createGoal throw on the list
\* of failed checks
validationMessage(validationErrors) ==
    <<"Validation failed: ">> \o join(validationErrors)

\* how createWallet ends: "ok" or the error it throws
createWalletResult(walletData) ==
    IF validateWalletDataThrows(walletData) THEN TypeError
    ELSE IF validateWalletData(walletData) # <<>> THEN "Validation failed"
    ELSE IF ~ObjectIdIsValid(walletData.user_id) THEN "BSONError"
    ELSE IF walletData.user_id \notin users THEN "User not found"
    ELSE IF existingWalletOnCreate(walletData) THEN DuplicateWalletError
    ELSE "ok"

CreateWallet(walletData) ==
    LET res == createWalletResult(walletData)
    IN  /\ res = "ok" => nextId <= MaxWallets
        /\ lastOp' = [op |-> "createWallet", res |-> res,
                      message |->
                          IF res = "Validation failed"
                          THEN validationMessage(validateWalletData(walletData))
                          ELSE <<res>>]
        /\ IF res = "ok"
           THEN /\ wallets' = insertOne(wallets, newWallet(walletData, nextId))
                /\ nextId' = nextId + 1
           ELSE UNCHANGED <<wallets, nextId>>
        /\ UNCHANGED <<cache, users, goals, now, hadSubgoals, pc, req,
                       conn, userDocs, retry>>

\* updateWallet's $set document: the fields it writes, from the patch
updateData(updates) ==
    [ label   |-> IF updates.label # Undefined
                  THEN trim(updates.label) ELSE Undefined,
      address |-> IF updates.address # Undefined
                  THEN trim(toLowerCase(updates.address)) ELSE Undefined,
      chain   |-> IF updates.chain # Undefined
                  THEN trim(toLowerCase(updates.chain)) ELSE Undefined ]

\* the stored documents carry userId, never user_id: existingWallet.user_id
existingWalletUserId(w) == Undefined

\* a filter {user_id: v} against a wallet document: an undefined v is sent as
\* null, which matches every document without a user_id field
matchesUserIdFilter(w, v) == v = Undefined

\* updateWallet's findOne({user_id, address, chain, _id: {$ne: walletId}})
duplicateWalletOnUpdate(existingWallet, updates, walletId) ==
    LET newAddress == IF ~Falsy(updates.address)
                      THEN toLowerCase(updates.address)
                      ELSE existingWallet.address
        newChain   == IF ~Falsy(updates.chain)
                      THEN toLowerCase(updates.chain)
                      ELSE existingWallet.chain
    IN  \E w \in wallets :
            /\ matchesUserIdFilter(w, existingWalletUserId(existingWallet))
            /\ w.address = newAddress
            /\ w.chain = newChain
            /\ w.id # walletId

\* the address check of updateWallet's address branch
updateAddressError(existingWallet, updates) ==
    validateAddressByChain(updateData(updates).address, existingWallet.chain)

\* the address check of updateWallet's chain branch
updateChainError(existingWallet, updates) ==
    validateAddressByChain(existingWallet.address, updateData(updates).chain)

\* getWalletById without the id-shape check
getWalletByIdResult_NoShapeCheck(walletId) == "ok"

\* what getWalletById(walletId) returns from the collection ws: the
\* timestamps of the wallet it maps from the document, {} for null
getWalletById(ws, walletId) ==
    {[id |-> w.id, createdAt |-> w.createdAt, updatedAt |-> w.updatedAt] :
        w \in {v \in ws : v.id = walletId}}

\* how getWalletById ends: "ok" (the wallet or null) or the error it throws
getWalletByIdResult(walletId) ==
    IF ~ObjectIdIsValid(walletId) THEN "Invalid wallet ID format" ELSE "ok"

\* the status of GET /:walletId and GET /:goalId: 500 when the service
\* throws, 404 when it returns null, 200 with the document
getByIdStatus(res, found) ==
    IF res # "ok" THEN 500 ELSE IF ~found THEN 404 ELSE 200

GetWalletById(walletId) ==
    LET res == getWalletByIdResult(walletId)
        found == res = "ok" /\ \E w \in wallets : w.id = walletId
    IN  /\ lastOp' = [op |-> "getWalletById", res |-> res, id |-> walletId,
                      found |-> found, status |-> getByIdStatus(res, found),
                      returned |-> IF res = "ok"
                                   THEN getWalletById(wallets, walletId)
                                   ELSE {}]
        /\ UNCHANGED <<wallets, cache, users, goals, nextId, now, hadSubgoals,
                       pc, req, conn, userDocs, retry>>

\* how updateWallet ends: "ok" or the error it throws
updateWalletResult(walletId, updates) ==
    IF ~ObjectIdIsValid(walletId) THEN "Invalid wallet ID format"
    ELSE IF ~\E w \in wallets : w.id = walletId THEN "Wallet not found"
    ELSE
    LET existingWallet == CHOOSE w \in wallets : w.id = walletId
        data == updateData(updates)
    IN  IF updates.label # Undefined /\ Len(data.label) = 0
            THEN "Wallet label cannot be empty"
        ELSE IF updates.address # Undefined /\ Len(data.address) = 0
            THEN "Wallet address cannot be empty"
        ELSE IF updates.address # Undefined
                /\ updateAddressError(existingWallet, updates) # Null
            THEN updateAddressError(existingWallet, updates)
        ELSE IF updates.chain # Undefined /\ data.chain \notin supportedChains
            THEN "Unsupported chain"
        ELSE IF updates.chain # Undefined
                /\ updateChainError(existingWallet, updates) # Null
            THEN updateChainError(existingWallet, updates)
        ELSE IF (~Falsy(updates.address) \/ ~Falsy(updates.chain))
                /\ duplicateWalletOnUpdate(existingWallet, updates, walletId)
            THEN DuplicateWalletError
        ELSE "ok"

\* updateOne({_id}, {$set: updateData}) applied to one document
setWallet(w, updates) ==
    LET data == updateData(updates)
    IN  [ w EXCEPT
            !.updated_at = {now},
            !.label   = IF data.label # Undefined THEN data.label ELSE @,
            !.address = IF data.address # Undefined THEN data.address ELSE @,
            !.chain   = IF data.chain # Undefined THEN data.chain ELSE @ ]

\* an update that writes the label as soon as the label has passed its check
walletsAfterUpdate_LabelFirst(walletId, updates) ==
    IF updateWalletResult(walletId, updates) = "ok"
    THEN {IF w.id = walletId THEN setWallet(w, updates) ELSE w :
                w \in wallets}
    ELSE {IF w.id = walletId /\ updates.label # Undefined
                /\ Len(trim(updates.label)) # 0
          THEN [w EXCEPT !.label = trim(updates.label)] ELSE w :
                w \in wallets}

\* the wallets collection when updateWallet returns or throws: the only
\* write is the updateOne after every check
walletsAfterUpdate(walletId, updates) ==
    IF updateWalletResult(walletId, updates) = "ok"
    THEN {IF w.id = walletId THEN setWallet(w, updates) ELSE w :
                w \in wallets}
    ELSE wallets

UpdateWallet(walletId, updates) ==
    LET res == updateWalletResult(walletId, updates)
    IN  /\ lastOp' = [op |-> "updateWallet", res |-> res, id |-> walletId,
                      returned |-> IF res = "ok"
                                   THEN getWalletById(
                                            walletsAfterUpdate(walletId,
                                                               updates),
                                            walletId)
                                   ELSE {}]
        /\ wallets' = walletsAfterUpdate(walletId, updates)
        /\ UNCHANGED <<cache, users, goals, nextId, now, hadSubgoals, pc, req,
                       conn, userDocs, retry>>

deleteWalletResult(walletId) ==
    IF ~ObjectIdIsValid(walletId) THEN "Invalid wallet ID format"
    ELSE IF ~\E w \in wallets : w.id = walletId THEN "Wallet not found"
    ELSE "ok"

DeleteWallet(walletId) ==
    LET res == deleteWalletResult(walletId)
    IN  /\ lastOp' = [op |-> "deleteWallet", res |-> res, id |-> walletId]
        /\ wallets' = IF res = "ok"
                      THEN {w \in wallets : w.id # walletId}
                      ELSE wallets
        /\ UNCHANGED <<cache, users, goals, nextId, now, hadSubgoals, pc, req,
                       conn, userDocs, retry>>

\* time passes between two requests
MaxNow == 2

Tick ==
    /\ now < MaxNow
    /\ now' = now + 1
    /\ UNCHANGED <<users, wallets, goals, nextId, lastOp, hadSubgoals, pc,
                   req, cache, conn, userDocs, retry>>

\* createWallet as two requests run it: the event loop switches requests at
\* each await, so a request takes the steps below one at a time
Procs == {1, 2}

NoRequest == [user_id |-> 0, address |-> <<>>, label |-> <<>>, chain |-> <<>>]

Running(p) == pc[p] \in {"findUser", "findExisting", "insertOne"}

\* the call, up to the first await: validateWalletData
CreateWalletBegin(p, walletData) ==
    /\ ~Running(p)
    /\ req' = [req EXCEPT ![p] = walletData]
    /\ IF createWalletResult(walletData) \in {TypeError, "Validation failed"}
       THEN /\ pc' = [pc EXCEPT ![p] = createWalletResult(walletData)]
            /\ lastOp' = [op |-> "createWallet",
                          res |-> createWalletResult(walletData)]
       ELSE /\ pc' = [pc EXCEPT ![p] = "findUser"]
            /\ UNCHANGED lastOp
    /\ UNCHANGED <<cache, users, wallets, goals, nextId, now, hadSubgoals,
                       conn, userDocs, retry>>

\* await userCollection.findOne({_id})
CreateWalletFindUser(p) ==
    /\ pc[p] = "findUser"
    /\ LET res == IF ~ObjectIdIsValid(req[p].user_id) THEN "BSONError"
                  ELSE IF req[p].user_id \notin users THEN "User not found"
                  ELSE "findExisting"
       IN  /\ pc' = [pc EXCEPT ![p] = res]
           /\ IF res = "findExisting" THEN UNCHANGED lastOp
              ELSE lastOp' = [op |-> "createWallet", res |-> res]
    /\ UNCHANGED <<cache, users, wallets, goals, nextId, now, hadSubgoals, req,
                       conn, userDocs, retry>>

\* await collection.findOne({userId, address, chain})
CreateWalletFindExisting(p) ==
    /\ pc[p] = "findExisting"
    /\ IF existingWalletOnCreate(req[p])
       THEN /\ pc' = [pc EXCEPT ![p] = DuplicateWalletError]
            /\ lastOp' = [op |-> "createWallet", res |-> DuplicateWalletError]
       ELSE /\ pc' = [pc EXCEPT ![p] = "insertOne"]
            /\ UNCHANGED lastOp
    /\ UNCHANGED <<cache, users, wallets, goals, nextId, now, hadSubgoals, req,
                       conn, userDocs, retry>>

\* await collection.insertOne(newWallet), and the return
CreateWalletInsert(p) ==
    /\ pc[p] = "insertOne"
    /\ nextId <= MaxWallets
    /\ wallets' = insertOne(wallets, newWallet(req[p], nextId))
    /\ nextId' = nextId + 1
    /\ pc' = [pc EXCEPT ![p] = "ok"]
    /\ lastOp' = [op |-> "createWallet", res |-> "ok"]
    /\ UNCHANGED <<cache, users, goals, now, hadSubgoals, req,
                       conn, userDocs, retry>>

----------------------------------------------------------------------------
(* JavaScript numbers: the amounts of a goal.  A value is a number (NaN    *)
(* included) or undefined; a comparison with NaN or undefined is false.    *)

Num(n)       == [type |-> "number", nan |-> FALSE, v |-> n]
NaN          == [type |-> "number", nan |-> TRUE, v |-> 0]
UndefinedNum == [type |-> "undefined", nan |-> TRUE, v |-> 0]

IsNumber(x) == x.type = "number"          \* typeof x === 'number'
Lt(a, b) == ~a.nan /\ ~b.nan /\ a.v < b.v   \* a < b
Le(a, b) == ~a.nan /\ ~b.nan /\ a.v <= b.v  \* a <= b
Gt(a, b) == Lt(b, a)                        \* a > b

----------------------------------------------------------------------------
(* The arithmetic of Math.round((current_amount / target_amount) * 100) on *)
(* doubles.  A positive double is m * 2^e, its significand m a number of   *)
(* Precision bits written as limbs, most significant first: a top limb of  *)
(* TopBits bits and Limbs limbs of LimbBits bits.  Every operation rounds  *)
(* to nearest, ties to even.                                               *)

Precision == 53
LimbBits  == 12
Limbs     == 4
LimbBase  == 2 ^ LimbBits
TopBits   == Precision - Limbs * LimbBits

Front(s) == SubSeq(s, 1, Len(s) - 1)

\* m + k with the carries propagated; the top limb takes the last carry
RECURSIVE AddSmall(_, _)
AddSmall(m, k) ==
    IF Len(m) = 1 THEN <<m[1] + k>>
    ELSE LET s == m[Len(m)] + k
         IN  AddSmall(Front(m), s \div LimbBase) \o <<s % LimbBase>>

\* m \div 2^d for d <= LimbBits
ShiftRight(m, d) ==
    [i \in 1..Len(m) |->
        (IF i = 1 THEN 0 ELSE (m[i - 1] % (2 ^ d)) * (2 ^ (LimbBits - d)))
        + (m[i] \div (2 ^ d))]

\* m + 1 when up, renormalized when the sum needs one more bit
RoundUp(m, e, up) ==
    LET sum == IF up THEN AddSmall(m, 1) ELSE m
    IN  IF sum[1] = 2 ^ TopBits
        THEN [m |-> ShiftRight(sum, 1), e |-> e + 1]
        ELSE [m |-> sum, e |-> e]

\* c, t and e with c / t unchanged up to 2^e, scaled so that t <= c < 2t
RECURSIVE Normalize(_, _, _)
Normalize(c, t, e) ==
    IF c < t THEN Normalize(2 * c, t, e - 1)
    ELSE IF c >= 2 * t THEN Normalize(c, 2 * t, e + 1)
    ELSE [c |-> c, t |-> t, e |-> e]

\* the next n limbs of rem / t and the remainder left after them
RECURSIVE LongDiv(_, _, _)
LongDiv(rem, t, n) ==
    IF n = 0 THEN [limbs |-> <<>>, rem |-> rem]
    ELSE LET next == LongDiv((rem * LimbBase) % t, t, n - 1)
         IN  [limbs |-> <<(rem * LimbBase) \div t>> \o next.limbs,
              rem |-> next.rem]

\* c / t for integers c > 0 and t > 0
Divide(c, t) ==
    LET n   == Normalize(c, t, 0)
        top == (n.c * 2 ^ (TopBits - 1)) \div n.t
        d   == LongDiv((n.c * 2 ^ (TopBits - 1)) % n.t, n.t, Limbs)
        m   == <<top>> \o d.limbs
    IN  RoundUp(m, n.e - (Precision - 1),
                2 * d.rem > n.t \/ (2 * d.rem = n.t /\ m[Len(m)] % 2 = 1))

\* x * 100
Times100(x) ==
    LET p    == AddSmall([i \in 1..Len(x.m) |-> x.m[i] * 100], 0)
        d    == IF p[1] >= 2 ^ (LimbBits - 1) THEN LimbBits - TopBits
                ELSE LimbBits - TopBits - 1     \* the bits to drop
        m    == ShiftRight(p, d)
        drop == p[Len(p)] % (2 ^ d)
        half == 2 ^ (d - 1)
    IN  RoundUp(m, x.e + d,
                drop > half \/ (drop = half /\ m[Len(m)] % 2 = 1))

\* Math.round of a positive double below 2^28: the nearest integer, a half
\* rounds up
MathRound(x) ==
    LET ni == Precision + x.e     \* the bits before the binary point
        h  == (x.m[1] * LimbBase + x.m[2]) * LimbBase + x.m[3]
        k  == TopBits + 2 * LimbBits - ni
    IN  IF ni < 0 THEN 0
        ELSE (h \div (2 ^ k)) + ((h \div (2 ^ (k - 1))) % 2)

\* Math.round((goal.current_amount / goal.target_amount) * 100) for the
\* amounts the validators let through: NaN, or integers c >= 0 and t > 0
progress_percentage(goal) ==
    IF goal.current_amount.nan \/ goal.target_amount.nan THEN NaN
    ELSE IF goal.current_amount.v = 0 THEN Num(0)
    ELSE Num(MathRound(Times100(Divide(goal.current_amount.v,
                                       goal.target_amount.v))))

----------------------------------------------------------------------------
(* MongoDBGoalService over the goals and users collections.  A goal        *)
(* document keeps the fields the service validates or derives from; a      *)
(* parent_goal_id is {} (null) or {id}.  A patch names the fields it       *)
(* carries in its set fields.                                              *)

Regular == <<"r","e","g","u","l","a","r">>
Parent  == <<"p","a","r","e","n","t">>
Subgoal == <<"s","u","b","g","o","a","l">>

GoalTypes == {Regular, Parent, Subgoal}

\* goalData.parent_goal_id && !ObjectId.isValid(goalData.parent_goal_id)
BadParentId(parent) == \E p \in parent : ~ObjectIdIsValid(p)

\* MongoDBGoalService.validateGoalData: the list of failed checks
validateGoalData(goalData) ==
    (IF Falsy(goalData.name) \/ Len(trim(goalData.name)) = 0
        THEN <<"Goal name is required">> ELSE <<>>)
    \o (IF Falsy(goalData.coin) \/ Len(trim(goalData.coin)) = 0
        THEN <<"Coin is required">> ELSE <<>>)
    \o (IF Falsy(goalData.coin_symbol) \/ Len(trim(goalData.coin_symbol)) = 0
        THEN <<"Coin symbol is required">> ELSE <<>>)
    \o (IF ~IsNumber(goalData.current_amount)
           \/ Lt(goalData.current_amount, Num(0))
        THEN <<"Current amount must be a non-negative number">> ELSE <<>>)
    \o (IF ~IsNumber(goalData.target_amount)
           \/ Le(goalData.target_amount, Num(0))
        THEN <<"Target amount must be a positive number">> ELSE <<>>)
    \o (IF Gt(goalData.current_amount, goalData.target_amount)
        THEN <<"Current amount cannot exceed target amount">> ELSE <<>>)
    \o (IF Falsy(goalData.goal_type) \/ goalData.goal_type \notin GoalTypes
        THEN <<"Goal type must be one of: regular, parent, subgoal">>
        ELSE <<>>)
    \o (IF BadParentId(goalData.parent_goal_id)
        THEN <<"Invalid parent goal ID format">> ELSE <<>>)

GoalExists(id) == \E g \in goals : g.id = id

\* a createGoal that looks the user up before it validates the fields
createGoalResult_UserFirst(goalData) ==
    IF ~ObjectIdIsValid(goalData.user_id) THEN "BSONError"
    ELSE IF goalData.user_id \notin users THEN "User not found"
    ELSE IF validateGoalData(goalData) # <<>> THEN "Validation failed"
    ELSE IF \E p \in goalData.parent_goal_id : ~GoalExists(p)
        THEN "Parent goal not found"
    ELSE "ok"

\* a createGoal that does not look the parent goal up
createGoalResult_NoParentLookup(goalData) ==
    IF validateGoalData(goalData) # <<>> THEN "Validation failed"
    ELSE IF ~ObjectIdIsValid(goalData.user_id) THEN "BSONError"
    ELSE IF goalData.user_id \notin users THEN "User not found"
    ELSE "ok"

\* how createGoal ends: "ok" or the error it throws
createGoalResult(goalData) ==
    IF validateGoalData(goalData) # <<>> THEN "Validation failed"
    ELSE IF ~ObjectIdIsValid(goalData.user_id) THEN "BSONError"
    ELSE IF goalData.user_id \notin users THEN "User not found"
    ELSE IF \E p \in goalData.parent_goal_id : ~GoalExists(p)
        THEN "Parent goal not found"
    ELSE "ok"

\* the document createGoal inserts
newGoal(goalData, id) ==
    [ id             |-> id,
      user_id        |-> goalData.user_id,
      name           |-> trim(goalData.name),
      title          |-> Undefined,
      progress       |-> goalData.progress,
      coin           |-> trim(goalData.coin),
      coin_symbol    |-> trim(goalData.coin_symbol),
      current_amount |-> goalData.current_amount,
      target_amount  |-> goalData.target_amount,
      goal_type      |-> goalData.goal_type,
      parent_goal_id |-> goalData.parent_goal_id,
      created_at     |-> now,
      updated_at     |-> now ]

\* the progress_percentage of the goal getGoalById(goalId) returns from the
\* collection gs, undefined when it returns null
getGoalById(gs, goalId) ==
    IF \E g \in gs : g.id = goalId
    THEN progress_percentage(CHOOSE g \in gs : g.id = goalId)
    ELSE UndefinedNum

\* how getGoalById ends: "ok" or the error it throws
getGoalByIdResult(goalId) ==
    IF ~ObjectIdIsValid(goalId) THEN "Invalid goal ID format" ELSE "ok"

GetGoalById(goalId) ==
    LET res == getGoalByIdResult(goalId)
    IN  /\ lastOp' = [op |-> "getGoalById", res |-> res, id |-> goalId,
                      found |-> res = "ok" /\ GoalExists(goalId),
                      status |->
                          getByIdStatus(res, res = "ok" /\ GoalExists(goalId)),
                      progress_percentage |->
                          IF res = "ok" THEN getGoalById(goals, goalId)
                          ELSE UndefinedNum]
        /\ UNCHANGED <<goals, cache, users, wallets, nextId, now,
                       hadSubgoals, pc, req,
                       conn, userDocs, retry>>

\* how getUserGoals ends: "ok" or the error it throws
getUserGoalsResult(userId) ==
    IF ~ObjectIdIsValid(userId) THEN "Invalid user ID format" ELSE "ok"

\* getUserGoals' list: the id and the progress_percentage of each goal of
\* the user
getUserGoals(userId) ==
    {[id |-> g.id, progress_percentage |-> progress_percentage(g)] :
        g \in {x \in goals : x.user_id = userId}}

GetUserGoals(userId) ==
    LET res == getUserGoalsResult(userId)
    IN  /\ lastOp' = [op |-> "getUserGoals", res |-> res, id |-> userId,
                      list |-> IF res = "ok" THEN getUserGoals(userId)
                               ELSE {}]
        /\ UNCHANGED <<goals, cache, users, wallets, nextId, now,
                       hadSubgoals, pc, req,
                       conn, userDocs, retry>>

CreateGoal(goalData) ==
    LET res == createGoalResult(goalData)
    IN  /\ res = "ok" => nextId <= MaxGoals
        /\ lastOp' = [op |-> "createGoal", res |-> res, id |-> nextId,
                      message |->
                          IF res = "Validation failed"
                          THEN validationMessage(validateGoalData(goalData))
                          ELSE <<res>>,
                      progress_percentage |->
                          IF res = "ok"
                          THEN progress_percentage(newGoal(goalData, nextId))
                          ELSE UndefinedNum]
        /\ IF res = "ok"
           THEN /\ goals' = goals \cup {newGoal(goalData, nextId)}
                /\ nextId' = nextId + 1
           ELSE UNCHANGED <<goals, nextId>>
        /\ UNCHANGED <<cache, users, wallets, now, hadSubgoals, pc, req,
                       conn, userDocs, retry>>

Has(updates, f) == f \in updates.fields

\* how updateGoal ends: "ok" or the error it throws
updateGoalResult(goalId, updates) ==
    IF ~ObjectIdIsValid(goalId) THEN "Invalid goal ID format"
    ELSE IF ~GoalExists(goalId) THEN "Goal not found"
    ELSE IF Has(updates, "title")
            /\ (Falsy(updates.title) \/ Len(trim(updates.title)) = 0)
        THEN "Goal title cannot be empty"
    ELSE IF Has(updates, "coin")
            /\ (Falsy(updates.coin) \/ Len(trim(updates.coin)) = 0)
        THEN "Coin cannot be empty"
    ELSE IF Has(updates, "coin_symbol")
            /\ (Falsy(updates.coin_symbol)
                \/ Len(trim(updates.coin_symbol)) = 0)
        THEN "Coin symbol cannot be empty"
    ELSE IF Has(updates, "current_amount")
            /\ (~IsNumber(updates.current_amount)
                \/ Lt(updates.current_amount, Num(0)))
        THEN "Current amount must be a non-negative number"
    ELSE IF Has(updates, "target_amount")
            /\ (~IsNumber(updates.target_amount)
                \/ Le(updates.target_amount, Num(0)))
        THEN "Target amount must be a positive number"
    ELSE IF Has(updates, "goal_type") /\ updates.goal_type \notin GoalTypes
        THEN "Goal type must be one of: regular, parent, subgoal"
    ELSE IF Has(updates, "parent_goal_id")
            /\ BadParentId(updates.parent_goal_id)
        THEN "Invalid parent goal ID format"
    ELSE IF Has(updates, "parent_goal_id")
            /\ \E p \in updates.parent_goal_id : ~GoalExists(p)
        THEN "Parent goal not found"
    ELSE "ok"

\* updateOne({_id}, {$set: {...updates, updated_at}}) applied to one document
setGoal(g, updates) ==
    [ g EXCEPT
        !.updated_at = now,
        !.name = IF Has(updates, "name") THEN updates.name ELSE @,
        !.title = IF Has(updates, "title") THEN updates.title ELSE @,
        !.progress = IF Has(updates, "progress") THEN updates.progress ELSE @,
        !.coin = IF Has(updates, "coin") THEN updates.coin ELSE @,
        !.coin_symbol =
            IF Has(updates, "coin_symbol") THEN updates.coin_symbol ELSE @,
        !.current_amount =
            IF Has(updates, "current_amount") THEN updates.current_amount
            ELSE @,
        !.target_amount =
            IF Has(updates, "target_amount") THEN updates.target_amount
            ELSE @,
        !.goal_type =
            IF Has(updates, "goal_type") THEN updates.goal_type ELSE @,
        !.parent_goal_id =
            IF Has(updates, "parent_goal_id") THEN updates.parent_goal_id
            ELSE @ ]

UpdateGoal(goalId, updates) ==
    LET res == updateGoalResult(goalId, updates)
    IN  /\ goals' =
             IF res = "ok"
             THEN {IF g.id = goalId THEN setGoal(g, updates) ELSE g :
                        g \in goals}
             ELSE goals
        /\ lastOp' = [op |-> "updateGoal", res |-> res, id |-> goalId,
                      progress_percentage |->
                          IF res = "ok" THEN getGoalById(goals', goalId)
                          ELSE UndefinedNum]
        /\ UNCHANGED <<cache, users, wallets, nextId, now, hadSubgoals, pc, req,
                       conn, userDocs, retry>>

SubgoalsError ==
    "Cannot delete goal with subgoals. Please delete subgoals first."

\* a find that never returns a subgoal
subgoals_None(goalId) == {}

\* deleteGoal's find({parent_goal_id: goalId})
subgoals(goalId) == {g \in goals : g.parent_goal_id = {goalId}}

\* how deleteGoal ends: "ok" or the error it throws
deleteGoalResult(goalId) ==
    IF ~ObjectIdIsValid(goalId) THEN "Invalid goal ID format"
    ELSE IF ~GoalExists(goalId) THEN "Goal not found"
    ELSE IF subgoals(goalId) # {} THEN SubgoalsError
    ELSE "ok"

DeleteGoal(goalId) ==
    LET res == deleteGoalResult(goalId)
    IN  /\ lastOp' = [op |-> "deleteGoal", res |-> res, id |-> goalId]
        /\ goals' = IF res = "ok" THEN {g \in goals : g.id # goalId}
                    ELSE goals
        /\ hadSubgoals' = IF res = SubgoalsError
                          THEN hadSubgoals \cup {goalId} ELSE hadSubgoals
        /\ UNCHANGED <<cache, users, wallets, nextId, now, pc, req,
                       conn, userDocs, retry>>

\* how updateGoalProgress ends: "ok" or the error it throws
updateGoalProgressResult(goalId, newAmount) ==
    IF ~IsNumber(newAmount) \/ Lt(newAmount, Num(0))
        THEN "New amount must be a non-negative number"
    ELSE IF ~ObjectIdIsValid(goalId) THEN "BSONError"
    ELSE IF ~GoalExists(goalId) THEN "Goal not found"
    ELSE IF Gt(newAmount,
               (CHOOSE g \in goals : g.id = goalId).target_amount)
        THEN "Current amount cannot exceed target amount"
    ELSE "ok"

UpdateGoalProgress(goalId, newAmount) ==
    LET res == updateGoalProgressResult(goalId, newAmount)
    IN  /\ goals' =
             IF res = "ok"
             THEN {IF g.id = goalId
                   THEN [g EXCEPT !.current_amount = newAmount,
                                  !.updated_at = now]
                   ELSE g : g \in goals}
             ELSE goals
        /\ lastOp' = [op |-> "updateGoalProgress", res |-> res,
                      id |-> goalId,
                      progress_percentage |->
                          IF res = "ok" THEN getGoalById(goals', goalId)
                          ELSE UndefinedNum]
        /\ UNCHANGED <<cache, users, wallets, nextId, now, hadSubgoals, pc, req,
                       conn, userDocs, retry>>

----------------------------------------------------------------------------
(* The goal service as concurrent requests run it: one step per await on   *)
(* the store.  pc[p] is the await the request p is at, or how it ended.    *)

GoalAwaits ==
    {"createGoal.findUser", "createGoal.findParent", "createGoal.insertOne",
     "updateGoal.findOne", "updateGoal.findParent", "updateGoal.updateOne",
     "updateGoal.getGoalById",
     "deleteGoal.findOne", "deleteGoal.find", "deleteGoal.deleteOne"}

Idle(p) == ~Running(p) /\ pc[p] \notin GoalAwaits

\* a request p of operation op on goal id ends with res
GoalDone(p, op, id, res) ==
    /\ pc' = [pc EXCEPT ![p] = res]
    /\ lastOp' = [op |-> op, res |-> res, id |-> id]

\* a request p moves on to its next await
GoalGoto(p, await) ==
    /\ pc' = [pc EXCEPT ![p] = await]
    /\ UNCHANGED lastOp

\* a deleteOne that removes the goal only while no goal names it as parent
deleteOne_Guarded(collection, goalId) ==
    IF \E g \in collection : g.parent_goal_id = {goalId}
    THEN collection
    ELSE {g \in collection : g.id # goalId}

\* collection.deleteOne({_id: goalId})
deleteOne(collection, goalId) == {g \in collection : g.id # goalId}

\* createGoal up to its first query: validateGoalData
CreateGoalBegin(p, goalData) ==
    /\ Idle(p)
    /\ req' = [req EXCEPT ![p] = [op |-> "createGoal", data |-> goalData]]
    /\ IF validateGoalData(goalData) # <<>>
       THEN GoalDone(p, "createGoal", nextId, "Validation failed")
       ELSE GoalGoto(p, "createGoal.findUser")
    /\ UNCHANGED <<cache, users, wallets, goals, nextId, now, hadSubgoals,
                       conn, userDocs, retry>>

\* await userCollection.findOne({_id})
CreateGoalFindUser(p) ==
    /\ pc[p] = "createGoal.findUser"
    /\ IF ~ObjectIdIsValid(req[p].data.user_id)
       THEN GoalDone(p, "createGoal", nextId, "BSONError")
       ELSE IF req[p].data.user_id \notin users
       THEN GoalDone(p, "createGoal", nextId, "User not found")
       ELSE IF req[p].data.parent_goal_id # {}
       THEN GoalGoto(p, "createGoal.findParent")
       ELSE GoalGoto(p, "createGoal.insertOne")
    /\ UNCHANGED <<cache, users, wallets, goals, nextId, now, hadSubgoals, req,
                       conn, userDocs, retry>>

\* await collection.findOne({_id: parent_goal_id})
CreateGoalFindParent(p) ==
    /\ pc[p] = "createGoal.findParent"
    /\ IF \E q \in req[p].data.parent_goal_id : ~GoalExists(q)
       THEN GoalDone(p, "createGoal", nextId, "Parent goal not found")
       ELSE GoalGoto(p, "createGoal.insertOne")
    /\ UNCHANGED <<cache, users, wallets, goals, nextId, now, hadSubgoals, req,
                       conn, userDocs, retry>>

\* await collection.insertOne(newGoal), and the return
CreateGoalInsert(p) ==
    /\ pc[p] = "createGoal.insertOne"
    /\ nextId <= MaxGoals
    /\ goals' = goals \cup {newGoal(req[p].data, nextId)}
    /\ nextId' = nextId + 1
    /\ GoalDone(p, "createGoal", nextId, "ok")
    /\ UNCHANGED <<cache, users, wallets, now, hadSubgoals, req,
                       conn, userDocs, retry>>

\* updateGoal up to its first query: the id format check
UpdateGoalBegin(p, goalId, updates) ==
    /\ Idle(p)
    /\ req' = [req EXCEPT
                 ![p] = [op |-> "updateGoal", id |-> goalId, updates |-> updates]]
    /\ IF ~ObjectIdIsValid(goalId)
       THEN GoalDone(p, "updateGoal", goalId, "Invalid goal ID format")
       ELSE GoalGoto(p, "updateGoal.findOne")
    /\ UNCHANGED <<cache, users, wallets, goals, nextId, now, hadSubgoals,
                       conn, userDocs, retry>>

\* await collection.findOne({_id: goalId}), then the checks of the patch
UpdateGoalFindOne(p) ==
    /\ pc[p] = "updateGoal.findOne"
    /\ LET res == updateGoalResult(req[p].id, req[p].updates)
       IN  IF ~GoalExists(req[p].id)
           THEN GoalDone(p, "updateGoal", req[p].id, "Goal not found")
           ELSE IF res \notin {"ok", "Parent goal not found"}
           THEN GoalDone(p, "updateGoal", req[p].id, res)
           ELSE IF Has(req[p].updates, "parent_goal_id")
                   /\ req[p].updates.parent_goal_id # {}
           THEN GoalGoto(p, "updateGoal.findParent")
           ELSE GoalGoto(p, "updateGoal.updateOne")
    /\ UNCHANGED <<cache, users, wallets, goals, nextId, now, hadSubgoals, req,
                       conn, userDocs, retry>>

\* await collection.findOne({_id: updates.parent_goal_id})
UpdateGoalFindParent(p) ==
    /\ pc[p] = "updateGoal.findParent"
    /\ IF \E q \in req[p].updates.parent_goal_id : ~GoalExists(q)
       THEN GoalDone(p, "updateGoal", req[p].id, "Parent goal not found")
       ELSE GoalGoto(p, "updateGoal.updateOne")
    /\ UNCHANGED <<cache, users, wallets, goals, nextId, now, hadSubgoals, req,
                       conn, userDocs, retry>>

\* await collection.updateOne({_id: goalId}, {$set}); matchedCount 0 throws
UpdateGoalUpdateOne(p) ==
    /\ pc[p] = "updateGoal.updateOne"
    /\ IF GoalExists(req[p].id)
       THEN /\ goals' = {IF g.id = req[p].id THEN setGoal(g, req[p].updates)
                         ELSE g : g \in goals}
            /\ GoalGoto(p, "updateGoal.getGoalById")
       ELSE /\ UNCHANGED goals
            /\ GoalDone(p, "updateGoal", req[p].id, "Goal not found")
    /\ UNCHANGED <<cache, users, wallets, nextId, now, hadSubgoals, req,
                       conn, userDocs, retry>>

\* await this.getGoalById(goalId), then updatedGoal.title: a null throws
UpdateGoalGetGoalById(p) ==
    /\ pc[p] = "updateGoal.getGoalById"
    /\ IF GoalExists(req[p].id)
       THEN GoalDone(p, "updateGoal", req[p].id, "ok")
       ELSE GoalDone(p, "updateGoal", req[p].id, "TypeError")
    /\ UNCHANGED <<cache, users, wallets, goals, nextId, now, hadSubgoals, req,
                       conn, userDocs, retry>>

\* deleteGoal up to its first query: the id format check
DeleteGoalBegin(p, goalId) ==
    /\ Idle(p)
    /\ req' = [req EXCEPT ![p] = [op |-> "deleteGoal", id |-> goalId]]
    /\ IF ~ObjectIdIsValid(goalId)
       THEN GoalDone(p, "deleteGoal", goalId, "Invalid goal ID format")
       ELSE GoalGoto(p, "deleteGoal.findOne")
    /\ UNCHANGED <<cache, users, wallets, goals, nextId, now, hadSubgoals,
                       conn, userDocs, retry>>

\* await collection.findOne({_id: goalId})
DeleteGoalFindOne(p) ==
    /\ pc[p] = "deleteGoal.findOne"
    /\ IF ~GoalExists(req[p].id)
       THEN GoalDone(p, "deleteGoal", req[p].id, "Goal not found")
       ELSE GoalGoto(p, "deleteGoal.find")
    /\ UNCHANGED <<cache, users, wallets, goals, nextId, now, hadSubgoals, req,
                       conn, userDocs, retry>>

\* await collection.find({parent_goal_id: goalId}).toArray()
DeleteGoalFindSubgoals(p) ==
    /\ pc[p] = "deleteGoal.find"
    /\ IF subgoals(req[p].id) # {}
       THEN /\ GoalDone(p, "deleteGoal", req[p].id, SubgoalsError)
            /\ hadSubgoals' = hadSubgoals \cup {req[p].id}
       ELSE /\ GoalGoto(p, "deleteGoal.deleteOne")
            /\ UNCHANGED hadSubgoals
    /\ UNCHANGED <<cache, users, wallets, goals, nextId, now, req,
                       conn, userDocs, retry>>

\* await collection.deleteOne({_id: goalId}); deletedCount 0 throws
DeleteGoalDeleteOne(p) ==
    /\ pc[p] = "deleteGoal.deleteOne"
    /\ goals' = deleteOne(goals, req[p].id)
    /\ IF goals' # goals
       THEN GoalDone(p, "deleteGoal", req[p].id, "ok")
       ELSE GoalDone(p, "deleteGoal", req[p].id, "Goal not found")
    /\ UNCHANGED <<cache, users, wallets, nextId, now, hadSubgoals, req,
                       conn, userDocs, retry>>

----------------------------------------------------------------------------
(* CacheService over the wallet_data_cache and metadata_cache collections. *)
(* cache.uri: MONGODB_URI is set; cache.up: the store answers (a connect   *)
(* or an operation throws while it is FALSE); cache.isConnected: the field *)
(* of the service.  A blob arrives as JSON, which the store returns as     *)
(* written.                                                                *)

Threw == "threw"              \* an operation raised an error to its caller
Returned == "undefined"       \* an operation without a value returned

NewCache(uri) ==
    [ uri |-> uri, up |-> TRUE, isConnected |-> FALSE,
      wallet_data |-> {}, metadata |-> {} ]

\* CacheService.connect
connect(c) ==
    IF c.isConnected THEN c
    ELSE IF ~c.uri THEN c
    ELSE IF c.up THEN [c EXCEPT !.isConnected = TRUE]
    ELSE [c EXCEPT !.isConnected = FALSE]

\* a try block that lets the error out
catch_Rethrow(r, onError) == r

\* try { ... } catch (error) { return onError }
catch(r, onError) == IF r = Threw THEN onError ELSE r

\* the body of getWalletData, on a service that has run connect
getWalletDataBody(c, walletId, dataType) ==
    IF ~c.isConnected THEN Null
    ELSE IF ~ObjectIdIsValid(walletId) THEN Threw
    ELSE IF ~c.up THEN Threw
    ELSE IF \E d \in c.wallet_data :
                d.wallet_id = walletId /\ d.data_type = dataType
    THEN (CHOOSE d \in c.wallet_data :
                d.wallet_id = walletId /\ d.data_type = dataType).data
    ELSE Null

\* CacheService.getWalletData: the value it returns
getWalletData(c, walletId, dataType) ==
    catch(getWalletDataBody(connect(c), walletId, dataType), Null)

\* an updateOne with upsert that adds a document and keeps the old one; the
\* findOne of a key returns its oldest document
upsertWalletData_KeepOld(coll, walletId, dataType, data) ==
    IF \E d \in coll : d.wallet_id = walletId /\ d.data_type = dataType
    THEN coll
    ELSE coll \cup
            {[wallet_id |-> walletId, data_type |-> dataType, data |-> data]}

\* updateOne({wallet_id, data_type}, {$set: {data}}, {upsert: true})
upsertWalletData(coll, walletId, dataType, data) ==
    {d \in coll : ~(d.wallet_id = walletId /\ d.data_type = dataType)}
    \cup {[wallet_id |-> walletId, data_type |-> dataType, data |-> data]}

\* the body of setWalletData: how it ends
setWalletDataBody(c, walletId, dataType) ==
    IF ~c.isConnected THEN Returned
    ELSE IF ~ObjectIdIsValid(walletId) THEN Threw
    ELSE IF ~c.up THEN Threw
    ELSE "written"

\* the body of invalidateWalletData: how it ends
invalidateWalletDataBody(c, walletId, dataType) ==
    setWalletDataBody(c, walletId, dataType)

\* a deleteMany whose filter has lost the data_type
deleteManyWalletData_WholeWallet(coll, walletId, dataType) ==
    {d \in coll : d.wallet_id # walletId}

\* deleteMany(filter): data_type is in the filter only when dataType is truthy
deleteManyWalletData(coll, walletId, dataType) ==
    {d \in coll : ~( /\ d.wallet_id = walletId
                     /\ (~Falsy(dataType) => d.data_type = dataType) )}

\* the body of getMetadata
getMetadataBody(c, coinType) ==
    IF ~c.isConnected THEN Null
    ELSE IF ~c.up THEN Threw
    ELSE IF \E d \in c.metadata : d.coin_type = coinType
    THEN (CHOOSE d \in c.metadata : d.coin_type = coinType).metadata
    ELSE Null

\* CacheService.getMetadata: the value it returns
getMetadata(c, coinType) == catch(getMetadataBody(connect(c), coinType), Null)

\* updateOne({coin_type}, {$set: {metadata}}, {upsert: true})
upsertMetadata(coll, coinType, metadata) ==
    {d \in coll : d.coin_type # coinType}
    \cup {[coin_type |-> coinType, metadata |-> metadata]}

\* the body of setMetadata and of a setBatchMetadata that has operations
setMetadataBody(c) ==
    IF ~c.isConnected THEN Returned
    ELSE IF ~c.up THEN Threw
    ELSE "written"

\* bulkWrite of one upserting updateOne per entry of metadataMap
bulkWriteMetadata(coll, metadataMap) ==
    {d \in coll : d.coin_type \notin DOMAIN metadataMap}
    \cup {[coin_type |-> k, metadata |-> metadataMap[k]] :
            k \in DOMAIN metadataMap}

\* the storage collaborator is available: configured and answering
Available(c) == c.uri /\ c.up

CacheFrame ==
    UNCHANGED <<users, wallets, goals, nextId, now, hadSubgoals, pc, req,
                       conn, userDocs, retry>>

GetWalletData(walletId, dataType) ==
    /\ cache' = connect(cache)
    /\ lastOp' = [op |-> "getWalletData", avail |-> Available(cache),
                  res |-> getWalletData(cache, walletId, dataType)]
    /\ CacheFrame

SetWalletData(walletId, dataType, data) ==
    LET c == connect(cache)
        body == setWalletDataBody(c, walletId, dataType)
    IN  /\ cache' = IF body = "written"
                    THEN [c EXCEPT !.wallet_data =
                            upsertWalletData(@, walletId, dataType, data)]
                    ELSE c
        /\ lastOp' = [op |-> "setWalletData", avail |-> Available(cache),
                      res |-> IF body = "written" THEN Returned
                              ELSE catch(body, Returned)]
        /\ CacheFrame

InvalidateWalletData(walletId, dataType) ==
    LET c == connect(cache)
        body == invalidateWalletDataBody(c, walletId, dataType)
    IN  /\ cache' = IF body = "written"
                    THEN [c EXCEPT !.wallet_data =
                            deleteManyWalletData(@, walletId, dataType)]
                    ELSE c
        /\ lastOp' = [op |-> "invalidateWalletData", avail |-> Available(cache),
                      walletId |-> walletId, dataType |-> dataType,
                      res |-> IF body = "written" THEN Returned
                              ELSE catch(body, Returned)]
        /\ CacheFrame

GetMetadata(coinType) ==
    /\ cache' = connect(cache)
    /\ lastOp' = [op |-> "getMetadata", avail |-> Available(cache),
                  res |-> getMetadata(cache, coinType)]
    /\ CacheFrame

SetMetadata(coinType, metadata) ==
    LET c == connect(cache)
        body == setMetadataBody(c)
    IN  /\ cache' = IF body = "written"
                    THEN [c EXCEPT !.metadata =
                            upsertMetadata(@, coinType, metadata)]
                    ELSE c
        /\ lastOp' = [op |-> "setMetadata", avail |-> Available(cache),
                      res |-> IF body = "written" THEN Returned
                              ELSE catch(body, Returned)]
        /\ CacheFrame

SetBatchMetadata(metadataMap) ==
    LET c == connect(cache)
        body == IF DOMAIN metadataMap = {} /\ c.isConnected THEN Returned
                ELSE setMetadataBody(c)
    IN  /\ cache' = IF body = "written"
                    THEN [c EXCEPT !.metadata =
                            bulkWriteMetadata(@, metadataMap)]
                    ELSE c
        /\ lastOp' = [op |-> "setBatchMetadata", avail |-> Available(cache),
                      res |-> IF body = "written" THEN Returned
                              ELSE catch(body, Returned)]
        /\ CacheFrame

\* CacheService.disconnect
Disconnect ==
    /\ cache' = [cache EXCEPT !.isConnected = FALSE]
    /\ lastOp' = [op |-> "disconnect", res |-> Returned]
    /\ CacheFrame

\* the store stops or starts answering
StoreChange ==
    /\ cache' = [cache EXCEPT !.up = ~@]
    /\ UNCHANGED lastOp
    /\ CacheFrame

----------------------------------------------------------------------------
(* The storage connection of a service instance, one step per await.  Of   *)
(* an instance the model keeps isConnected, this.client (0 for null), the  *)
(* clients created so far and the clients whose connect() has completed    *)
(* and that nobody has closed.                                             *)

MaxClients == 3

WalletService == "wallets"
CacheSvc      == "cache"
Services      == {WalletService, CacheSvc}

NewConn ==
    [s \in Services |->
        [isConnected |-> FALSE, client |-> 0, created |-> 0, opened |-> {}]]

\* ensureConnection (CacheService.connect) up to its await: it returns at
\* once on a connected instance, and the cache also without MONGODB_URI;
\* otherwise it creates a client and awaits client.connect()
EnsureConnectionBegin(p, s) ==
    /\ pc[p] = "idle"
    /\ IF conn[s].isConnected \/ (s = CacheSvc /\ ~cache.uri)
       THEN /\ lastOp' = [op |-> "ensureConnection", res |-> "ok",
                          svc |-> s, connected |-> conn[s].isConnected]
            /\ UNCHANGED <<conn, pc, req>>
       ELSE /\ conn[s].created < MaxClients
            /\ conn' = [conn EXCEPT ![s].created = @ + 1,
                                    ![s].client = conn[s].created + 1]
            /\ pc' = [pc EXCEPT ![p] = "connect"]
            /\ req' = [req EXCEPT ![p] =
                         [svc |-> s, client |-> conn[s].created + 1]]
            /\ UNCHANGED lastOp
    /\ UNCHANGED <<users, wallets, goals, nextId, now, hadSubgoals, cache,
                   userDocs, retry>>

\* await client.connect() has resolved: this.isConnected = true
ConnectResolves(p) ==
    /\ pc[p] = "connect"
    /\ conn' = [conn EXCEPT ![req[p].svc].isConnected = TRUE,
                            ![req[p].svc].opened = @ \cup {req[p].client}]
    /\ lastOp' = [op |-> "ensureConnection", res |-> "ok",
                  svc |-> req[p].svc, connected |-> TRUE]
    /\ pc' = [pc EXCEPT ![p] = "idle"]
    /\ req' = [req EXCEPT ![p] = NoRequest]
    /\ UNCHANGED <<users, wallets, goals, nextId, now, hadSubgoals, cache,
                   userDocs, retry>>

\* await client.connect() has rejected: the services rethrow, the cache
\* sets isConnected = false and returns
ConnectRejects(p) ==
    /\ pc[p] = "connect"
    /\ conn' = IF req[p].svc = CacheSvc
               THEN [conn EXCEPT ![CacheSvc].isConnected = FALSE]
               ELSE conn
    /\ lastOp' = [op |-> "ensureConnection",
                  res |-> IF req[p].svc = CacheSvc THEN "ok" ELSE Threw,
                  svc |-> req[p].svc,
                  connected |-> conn'[req[p].svc].isConnected]
    /\ pc' = [pc EXCEPT ![p] = "idle"]
    /\ req' = [req EXCEPT ![p] = NoRequest]
    /\ UNCHANGED <<users, wallets, goals, nextId, now, hadSubgoals, cache,
                   userDocs, retry>>

\* disconnect: closes this.client, if any, and clears isConnected
DisconnectService(s) ==
    /\ conn[s].client # 0
    /\ conn' = [conn EXCEPT ![s].isConnected = FALSE,
                            ![s].opened = @ \ {conn[s].client}]
    /\ lastOp' = [op |-> "disconnect", res |-> "ok", svc |-> s,
                  connected |-> FALSE]
    /\ UNCHANGED <<users, wallets, goals, nextId, now, hadSubgoals, pc, req,
                   cache, userDocs, retry>>

----------------------------------------------------------------------------
(* MongoDBUserService: createUser and updateUser over the users            *)
(* collection.  userDocs maps the _id of a user to its username and email. *)

MaxUsers == 3

Alice      == "alice"
Bob        == "bob"
AliceEmail == "alice@evarra.io"
BobEmail   == "bob@evarra.io"

Carol      == "carol"
CarolEmail == "carol@evarra.io"

\* a field of updates that is left out or empty: updateUser skips both
NoValue == ""

NewUserDocs ==
    [id \in {1, 2} |->
        IF id = 1 THEN [username |-> Alice, email |-> AliceEmail]
        ELSE [username |-> Bob, email |-> BobEmail]]

\* createUser's findOne({$or: [{email}, {username}]})
existingUser(userData) ==
    \E id \in DOMAIN userDocs :
        \/ userDocs[id].email = userData.email
        \/ userDocs[id].username = userData.username

\* how createUser ends: "ok" or the error it throws
createUserResult(userData) ==
    IF existingUser(userData)
    THEN "User with this email or username already exists"
    ELSE "ok"

CreateUser(userData) ==
    LET res == createUserResult(userData)
        id == Cardinality(DOMAIN userDocs) + 1
    IN  /\ res = "ok" => id <= MaxUsers
        /\ lastOp' = [op |-> "createUser", res |-> res, id |-> id]
        /\ IF res = "ok"
           THEN /\ userDocs' =
                     [i \in DOMAIN userDocs \cup {id} |->
                        IF i = id
                        THEN [username |-> userData.username,
                              email |-> userData.email]
                        ELSE userDocs[i]]
                /\ users' = users \cup {id}
           ELSE UNCHANGED <<userDocs, users>>
        /\ UNCHANGED <<wallets, goals, nextId, now, hadSubgoals, pc, req,
                       cache, conn, retry>>

\* updateUser's $set document over the stored user: username and email are
\* written when the patch carries a truthy value
setUser(user, updates) ==
    [ username |-> IF updates.username # NoValue THEN updates.username
                   ELSE user.username,
      email |-> IF updates.email # NoValue THEN updates.email
                ELSE user.email ]

\* how updateUser ends: "ok" or the error it throws
updateUserResult(userId, updates) ==
    IF ~ObjectIdIsValid(userId) THEN "BSONError"
    ELSE IF userId \notin DOMAIN userDocs THEN "User not found"
    ELSE "ok"

UpdateUser(userId, updates) ==
    LET res == updateUserResult(userId, updates)
    IN  /\ lastOp' = [op |-> "updateUser", res |-> res, id |-> userId]
        /\ userDocs' = IF res = "ok"
                       THEN [userDocs EXCEPT
                                ![userId] = setUser(@, updates)]
                       ELSE userDocs
        /\ UNCHANGED <<users, wallets, goals, nextId, now, hadSubgoals, pc,
                       req, cache, conn, retry>>

----------------------------------------------------------------------------
(* ErrorHandler.withRetry, one step per await *)

(* retry holds one withRetry call: where it stands (pc), its options, the   *)
(* loop counter, how often fn has been called and delay awaited, lastError *)
(* ({} for null), and how it ended: outcome "returned" with result, or     *)
(* "threw" with the thrown value in thrown; fnReturned and fnThrew record  *)
(* what fn itself did.                                                     *)

\* defaultRetryOptions
defaultMaxRetries == 3
retryDelay        == 1000
backoffMultiplier == 2

\* the values fn throws: an Error, an AppError object made by
\* createApiError(message, 503), whose isRetryable is true, and a string
ThrownValues ==
    { [kind |-> "Error", message |-> "boom", isRetryable |-> FALSE],
      [kind |-> "object", message |-> "upstream", isRetryable |-> TRUE],
      [kind |-> "string", message |-> "oops", isRetryable |-> FALSE] }

\* String(error) of a value that is not an Error
String(error) ==
    IF error.kind = "string" THEN error.message ELSE "[object Object]"

\* a classification that keeps the isRetryable of the thrown value
classifyError_KeepRetryable(error, context) ==
    [ message |-> IF error.kind = "Error" THEN error.message
                  ELSE String(error),
      code |-> "UNKNOWN_ERROR", context |-> context,
      isRetryable |-> error.isRetryable ]

classifyError(error, context) ==
    [ message |-> IF error.kind = "Error" THEN error.message
                  ELSE String(error),
      code |-> "UNKNOWN_ERROR", context |-> context, isRetryable |-> FALSE ]

isRetryableError(error) == error.isRetryable = TRUE

\* retryConfig.retryCondition(lastError, attempt): the default, or a
\* condition the caller passes that always retries
retryCondition(condition, error) ==
    IF condition = "default" THEN isRetryableError(error) ELSE TRUE

NoRetry ==
    [ pc |-> "idle", maxRetries |-> 0, condition |-> "default",
      attempt |-> 0, calls |-> 0, delays |-> 0, slept |-> 0,
      lastError |-> {}, outcome |-> "none", result |-> "none",
      fnReturned |-> {}, fnThrew |-> {}, thrown |-> {} ]

NoRetryMessage == "Operation failed after all retry attempts"

\* the loop test and, when the loop is over, the statements after it
loopOrThrow(r, attempt) ==
    IF attempt <= r.maxRetries
    THEN [r EXCEPT !.pc = "fn", !.attempt = attempt]
    ELSE [r EXCEPT !.pc = "idle", !.attempt = attempt,
                   !.outcome = "threw",
                   !.thrown = IF r.lastError # {} THEN r.lastError
                              ELSE {[message |-> NoRetryMessage]}]

RetryFrame ==
    UNCHANGED <<users, wallets, goals, nextId, now, lastOp, hadSubgoals, pc,
                req, cache, conn, userDocs>>

\* withRetry(fn, {retry: {maxRetries, retryCondition}}) up to the first
\* call of fn
WithRetryBegin(maxRetries, condition) ==
    /\ retry.pc = "idle"
    /\ retry' = loopOrThrow([NoRetry EXCEPT !.maxRetries = maxRetries,
                                            !.condition = condition], 1)
    /\ RetryFrame

\* await fn() resolves: return result
FnReturns(result) ==
    /\ retry.pc = "fn"
    /\ retry' = [retry EXCEPT !.pc = "idle", !.calls = @ + 1,
                              !.outcome = "returned", !.result = result,
                              !.fnReturned = {result}]
    /\ RetryFrame

\* await fn() rejects: the catch block, then a delay or the break and the
\* statements after the loop
FnThrows(error) ==
    /\ retry.pc = "fn"
    /\ LET lastError == classifyError(error, "unknown")
           r == [retry EXCEPT !.calls = @ + 1, !.lastError = {lastError},
                              !.fnThrew = @ \cup {error}]
       IN  retry' =
             IF retry.attempt < retry.maxRetries
                /\ retryCondition(retry.condition, lastError)
             THEN [r EXCEPT !.pc = "delay"]
             ELSE [r EXCEPT !.pc = "idle", !.outcome = "threw",
                            !.thrown = {lastError}]
    /\ RetryFrame

\* await this.delay(delay) resolves: continue
DelayResolves ==
    /\ retry.pc = "delay"
    /\ LET delay == retryDelay * backoffMultiplier ^ (retry.attempt - 1)
       IN  retry' = loopOrThrow([retry EXCEPT !.delays = @ + 1,
                                             !.slept = @ + delay],
                               retry.attempt + 1)
    /\ RetryFrame

----------------------------------------------------------------------------
(* Requests: the strings the specifications draw payloads from *)

EthUpper  == <<"0","x">> \o Rep("A", EthHexLen)
EthPrefix == <<"0","X">> \o Rep("a", EthHexLen)
EthPadded == <<" ","0","x">> \o Rep("C", EthHexLen) \o <<" ">>
SuiAddr   == <<"0","x">> \o Rep("b", SuiHexLen)
BtcUpperL == <<"1">> \o Rep("L", BtcMinLen)
ShortAddr == <<"0","x","1","2","3">>

PolygonCap     == <<"P","o","l","y","g","o","n">>
EthereumPadded == <<" ","e","t","h","e","r","e","u","m">>
Doge           == <<"d","o","g","e">>

LabelMy    == <<" ","M","y"," ">>
LabelHot   == <<"h","o","t">>
LabelBlank == <<" ">>

WalletIds == 0..MaxWallets

Init ==
    /\ users = {1, 2}
    /\ wallets = {}
    /\ goals = {}
    /\ nextId = 1
    /\ now = 0
    /\ lastOp = [op |-> "none", res |-> "ok"]
    /\ hadSubgoals = {}
    /\ pc = [p \in Procs |-> "idle"]
    /\ req = [p \in Procs |-> NoRequest]
    /\ cache = NewCache(TRUE)
    /\ conn = NewConn
    /\ userDocs = NewUserDocs
    /\ retry = NoRetry

----------------------------------------------------------------------------
(* Spec: wallets of two users, one address on two chains of one family;    *)
(* the requests differ in user, letter case and padding.                   *)

UserIds == {1, 2, 3}

WalletPayloads ==
    [user_id : UserIds, address : {EthUpper, EthPrefix}, label : {LabelMy},
     chain : {Ethereum, PolygonCap, EthereumPadded}]

WalletPatches ==
    [label : {Undefined},
     address : {Undefined, EthUpper},
     chain : {Undefined, PolygonCap, EthereumPadded}]

Next ==
    \/ \E d \in WalletPayloads : CreateWallet(d)
    \/ \E id \in WalletIds, u \in WalletPatches : UpdateWallet(id, u)
    \/ \E id \in WalletIds : DeleteWallet(id)

Spec == Init /\ [][Next]_vars

----------------------------------------------------------------------------
(* SpecCreate: wallets created for present and absent users; the payloads  *)
(* differ in the user, the label, and a chain that is valid, unsupported   *)
(* or left out.                                                            *)

CreatePayloads ==
    [user_id : UserIds, address : {EthUpper, ShortAddr},
     label : {LabelMy, LabelHot, LabelBlank},
     chain : {Ethereum, PolygonCap, Doge, Undefined}]

NextCreate ==
    \/ \E d \in CreatePayloads : CreateWallet(d)
    \/ \E id \in WalletIds : DeleteWallet(id)

SpecCreate == Init /\ [][NextCreate]_vars

----------------------------------------------------------------------------
(* SpecConnect: two requests reach the connection of a service instance.   *)

NextConnect ==
    \/ \E p \in Procs, s \in Services : EnsureConnectionBegin(p, s)
    \/ \E p \in Procs : ConnectResolves(p)
    \/ \E p \in Procs : ConnectRejects(p)
    \/ \E s \in Services : DisconnectService(s)

SpecConnect == Init /\ [][NextConnect]_vars

----------------------------------------------------------------------------
(* SpecPatch: wallets of one user; the patches combine label, address and  *)
(* chain, valid and invalid.                                               *)

PatchPayloads ==
    [user_id : {1}, address : {EthUpper, EthPadded},
     label : {LabelMy, LabelBlank},
     chain : {Ethereum, PolygonCap, EthereumPadded}]

PatchPatches ==
    [label : {Undefined, LabelHot, LabelBlank},
     address : {Undefined, EthPadded, ShortAddr, <<>>},
     chain : {Undefined, PolygonCap, Doge}]

NextPatch ==
    \/ \E d \in PatchPayloads : CreateWallet(d)
    \/ \E id \in WalletIds, u \in PatchPatches : UpdateWallet(id, u)
    \/ \E id \in WalletIds : DeleteWallet(id)

SpecPatch == Init /\ [][NextPatch]_vars

----------------------------------------------------------------------------
(* SpecShape: wallets of one user on chains of three address families.     *)

ShapePayloads ==
    [user_id : {1}, address : {EthUpper, SuiAddr, BtcUpperL},
     label : {LabelMy}, chain : {Ethereum, Sui, Bitcoin}]

ShapePatches ==
    [label : {Undefined, LabelHot},
     address : {Undefined, EthUpper, SuiAddr, BtcUpperL},
     chain : {Undefined, Ethereum, Sui, Bitcoin}]

NextShape ==
    \/ \E d \in ShapePayloads : CreateWallet(d)
    \/ \E id \in WalletIds, u \in ShapePatches : UpdateWallet(id, u)
    \/ \E id \in WalletIds : DeleteWallet(id)

SpecShape == Init /\ [][NextShape]_vars

----------------------------------------------------------------------------
(* SpecGoal: goals of one user; the requests differ in the amounts.        *)

GoalName == <<"S","a","v","e">>
CoinName == <<"S","u","i">>
CoinSym  == <<"S","U","I">>

GoalIds == 0..MaxGoals

\* a patch that carries no field
EmptyPatch ==
    [ fields |-> {}, name |-> Undefined, title |-> Undefined, progress |-> 0,
      coin |-> Undefined, coin_symbol |-> Undefined,
      current_amount |-> UndefinedNum, target_amount |-> UndefinedNum,
      goal_type |-> Undefined, parent_goal_id |-> {} ]

AmountPayloads ==
    [ user_id : {1}, name : {GoalName}, coin : {CoinName},
      coin_symbol : {CoinSym},
      current_amount : {Num(250), Num(1000), Num(1500)},
      target_amount : {Num(1000), Num(0)},
      goal_type : {Regular}, parent_goal_id : {{}}, progress : {0} ]

AmountPatches ==
    {[EmptyPatch EXCEPT !.fields = {"current_amount"}, !.current_amount = c] :
        c \in {Num(500), Num(1500), Num(0 - 1)}}
    \cup
    {[EmptyPatch EXCEPT !.fields = {"target_amount"}, !.target_amount = t] :
        t \in {Num(500), Num(0)}}
    \cup
    {[EmptyPatch EXCEPT !.fields = {"current_amount", "target_amount"},
                        !.current_amount = Num(500),
                        !.target_amount = Num(500)]}

ProgressAmounts ==
    {Num(0 - 1), Num(0), Num(750), Num(1000), Num(1500), NaN, UndefinedNum}

NextGoal ==
    \/ \E d \in AmountPayloads : CreateGoal(d)
    \/ \E id \in GoalIds, u \in AmountPatches : UpdateGoal(id, u)
    \/ \E id \in GoalIds, n \in ProgressAmounts : UpdateGoalProgress(id, n)
    \/ \E id \in GoalIds : DeleteGoal(id)

SpecGoal == Init /\ [][NextGoal]_vars

----------------------------------------------------------------------------
(* SpecProgress: goals of one user read back; the requests differ in the   *)
(* amounts and in the advisory progress field.                             *)

ProgressPayloads ==
    [ user_id : {1}, name : {GoalName}, coin : {CoinName},
      coin_symbol : {CoinSym},
      current_amount : {Num(0), Num(10), Num(23), Num(40)},
      target_amount : {Num(40)},
      goal_type : {Regular}, parent_goal_id : {{}}, progress : {0, 50} ]

ProgressPatches ==
    {[EmptyPatch EXCEPT !.fields = {"current_amount"}, !.current_amount = c] :
        c \in {Num(23), Num(29)}}
    \cup
    {[EmptyPatch EXCEPT !.fields = {"target_amount"}, !.target_amount = t] :
        t \in {Num(200)}}
    \cup
    {[EmptyPatch EXCEPT !.fields = {"progress"}, !.progress = 50]}

NewAmounts == {Num(23), Num(30), Num(40)}

NextProgress ==
    \/ \E d \in ProgressPayloads : CreateGoal(d)
    \/ \E id \in GoalIds, u \in ProgressPatches : UpdateGoal(id, u)
    \/ \E id \in GoalIds, n \in NewAmounts : UpdateGoalProgress(id, n)
    \/ \E id \in GoalIds : GetGoalById(id)
    \/ \E u \in 0..2 : GetUserGoals(u)

SpecProgress == Init /\ [][NextProgress]_vars

----------------------------------------------------------------------------
(* SpecFields: goals created and patched; the requests differ in the user, *)
(* the parent goal and the text fields.                                    *)

Blank      == <<" ", " ">>
CoinPadded == <<" ", "S", "u", "i">>

FieldPayloads ==
    [ user_id : {0, 1, 3}, name : {GoalName, Blank}, coin : {CoinName},
      coin_symbol : {CoinSym}, current_amount : {Num(250)},
      target_amount : {Num(1000)}, goal_type : {Regular},
      parent_goal_id : {{}, {1}}, progress : {0} ]

FieldPatches ==
    {[EmptyPatch EXCEPT !.fields = {"name"}, !.name = n] :
        n \in {<<>>}}
    \cup
    {[EmptyPatch EXCEPT !.fields = {"title"}, !.title = n] :
        n \in {<<>>}}
    \cup
    {[EmptyPatch EXCEPT !.fields = {"coin"}, !.coin = n] :
        n \in {Blank, CoinPadded}}
    \cup
    {[EmptyPatch EXCEPT !.fields = {"coin_symbol"}, !.coin_symbol = n] :
        n \in {<<>>}}

NextFields ==
    \/ \E d \in FieldPayloads : CreateGoal(d)
    \/ \E id \in GoalIds, u \in FieldPatches : UpdateGoal(id, u)
    \/ \E id \in GoalIds : DeleteGoal(id)

SpecFields == Init /\ [][NextFields]_vars

----------------------------------------------------------------------------
(* SpecTree: goals of one user; the requests differ in the parent goal.    *)

ParentIds == {{}} \cup {{p} : p \in 0..MaxGoals}

TreePayloads ==
    [ user_id : {1}, name : {GoalName}, coin : {CoinName},
      coin_symbol : {CoinSym}, current_amount : {Num(250)},
      target_amount : {Num(1000)}, goal_type : {Regular, Subgoal},
      parent_goal_id : ParentIds, progress : {0} ]

TreePatches ==
    {[EmptyPatch EXCEPT !.fields = {"parent_goal_id"}, !.parent_goal_id = p] :
        p \in ParentIds}

NextTree ==
    \/ \E d \in TreePayloads : CreateGoal(d)
    \/ \E id \in GoalIds, u \in TreePatches : UpdateGoal(id, u)
    \/ \E id \in GoalIds : DeleteGoal(id)

SpecTree == Init /\ [][NextTree]_vars

----------------------------------------------------------------------------
(* SpecRace: two createWallet requests in flight at once.                  *)

RacePayloads ==
    [user_id : {0, 1, 3}, address : {EthUpper}, label : {LabelMy},
     chain : {Ethereum, PolygonCap, Doge}]

NextRace ==
    \/ \E p \in Procs, d \in RacePayloads : CreateWalletBegin(p, d)
    \/ \E p \in Procs : CreateWalletFindUser(p)
    \/ \E p \in Procs : CreateWalletFindExisting(p)
    \/ \E p \in Procs : CreateWalletInsert(p)
    \/ \E id \in WalletIds : DeleteWallet(id)

SpecRace == Init /\ [][NextRace]_vars

----------------------------------------------------------------------------
(* SpecGoalRace: two goal requests in flight at once.                      *)

RaceGoalPayloads ==
    [ user_id : {1}, name : {GoalName}, coin : {CoinName},
      coin_symbol : {CoinSym}, current_amount : {Num(250)},
      target_amount : {Num(1000)}, goal_type : {Regular},
      parent_goal_id : {{}, {1}}, progress : {0} ]

RaceGoalPatches ==
    {[EmptyPatch EXCEPT !.fields = {"parent_goal_id"}, !.parent_goal_id = q] :
        q \in {{1}}}

NextGoalRace ==
    \/ \E p \in Procs, d \in RaceGoalPayloads : CreateGoalBegin(p, d)
    \/ \E p \in Procs : CreateGoalFindUser(p)
    \/ \E p \in Procs : CreateGoalFindParent(p)
    \/ \E p \in Procs : CreateGoalInsert(p)
    \/ \E p \in Procs, id \in GoalIds, u \in RaceGoalPatches :
            UpdateGoalBegin(p, id, u)
    \/ \E p \in Procs : UpdateGoalFindOne(p)
    \/ \E p \in Procs : UpdateGoalFindParent(p)
    \/ \E p \in Procs : UpdateGoalUpdateOne(p)
    \/ \E p \in Procs : UpdateGoalGetGoalById(p)
    \/ \E p \in Procs, id \in GoalIds : DeleteGoalBegin(p, id)
    \/ \E p \in Procs : DeleteGoalFindOne(p)
    \/ \E p \in Procs : DeleteGoalFindSubgoals(p)
    \/ \E p \in Procs : DeleteGoalDeleteOne(p)

SpecGoalRace == Init /\ [][NextGoalRace]_vars

----------------------------------------------------------------------------
(* SpecCache: the cache service, with and without MONGODB_URI, over a      *)
(* store that can stop answering.                                          *)

Holdings     == <<"h","o","l","d","i","n","g","s">>
Transactions == <<"t","x","s">>
DataTypes == {Holdings, Transactions}

CacheWalletIds == {0, 1}
Blobs == {"blob1", "blob2"}
CoinTypes == {"0x2::sui::SUI", "0x2::usdc::USDC"}

MetadataMaps ==
    {<<>>} \cup {[k \in ks |-> "blob1"] : ks \in {{"0x2::sui::SUI"}, CoinTypes}}

InitCache ==
    /\ users = {1, 2}
    /\ wallets = {}
    /\ goals = {}
    /\ nextId = 1
    /\ now = 0
    /\ lastOp = [op |-> "none", res |-> "ok"]
    /\ hadSubgoals = {}
    /\ pc = [p \in Procs |-> "idle"]
    /\ req = [p \in Procs |-> NoRequest]
    /\ \E uri \in BOOLEAN : cache = NewCache(uri)
    /\ conn = NewConn
    /\ userDocs = NewUserDocs
    /\ retry = NoRetry

NextCache ==
    \/ \E w \in CacheWalletIds, t \in DataTypes : GetWalletData(w, t)
    \/ \E w \in CacheWalletIds, t \in DataTypes, b \in Blobs :
            SetWalletData(w, t, b)
    \/ \E w \in CacheWalletIds, t \in DataTypes \cup {Undefined} :
            InvalidateWalletData(w, t)
    \/ \E k \in CoinTypes : GetMetadata(k)
    \/ \E k \in CoinTypes, m \in Blobs : SetMetadata(k, m)
    \/ \E mm \in MetadataMaps : SetBatchMetadata(mm)
    \/ Disconnect
    \/ StoreChange

SpecCache == InitCache /\ [][NextCache]_vars

----------------------------------------------------------------------------
(* SpecInvalidate: wallet data of two wallets and metadata are cached and  *)
(* wallet data is invalidated, by key and by wallet.                       *)

InvalidateWalletIds == {0, 1, 2}

NextInvalidate ==
    \/ \E w \in InvalidateWalletIds, t \in DataTypes :
            SetWalletData(w, t, "blob1")
    \/ \E w \in InvalidateWalletIds, t \in DataTypes \cup {Undefined, <<>>} :
            InvalidateWalletData(w, t)
    \/ \E k \in CoinTypes : SetMetadata(k, "blob1")
    \/ StoreChange

SpecInvalidate == InitCache /\ [][NextInvalidate]_vars

----------------------------------------------------------------------------
(* SpecValidate: the two address validators and validateWalletData, called *)
(* on addresses at and around the limits of each shape rule and on chain   *)
(* names in both letter cases, aliases and unsupported names.              *)

EthShort   == <<"0","x">> \o Rep("a", EthHexLen - 1)
EthLong    == <<"0","x">> \o Rep("a", EthHexLen + 1)
EthBadChar == <<"0","x">> \o Rep("a", EthHexLen - 1) \o <<"g">>
SuiShort   == <<"0","x">> \o Rep("b", SuiHexLen - 1)
SuiLong    == <<"0","x">> \o Rep("b", SuiHexLen + 1)
SuiBadChar == <<"0","x">> \o Rep("b", SuiHexLen - 1) \o <<"G">>
BtcShort   == <<"1">> \o Rep("L", BtcMinLen - 1)
BtcMax     == <<"3">> \o Rep("z", BtcMaxLen)
BtcLong    == <<"3">> \o Rep("0", 1) \o Rep("z", BtcMaxLen)
BtcBadChar == <<"1">> \o Rep("L", BtcMinLen - 1) \o <<"l">>
BtcBadHead == <<"2">> \o Rep("L", BtcMinLen)
SolMin     == Rep("A", SolMinLen)
SolShort   == Rep("A", SolMinLen - 1)
SolLong    == Rep("A", SolMaxLen + 1)
SolBadChar == Rep("A", SolMinLen - 1) \o <<"O">>
Bech32Min  == <<"b","c","1">> \o Rep("0", Bech32MinLen)
Bech32Short == <<"b","c","1">> \o Rep("0", Bech32MinLen - 1)

ValidateAddresses ==
    {EthUpper, EthPrefix, EthShort, EthLong, EthBadChar,
     SuiAddr, SuiShort, SuiLong, SuiBadChar,
     BtcUpperL, BtcShort, BtcMax, BtcLong, BtcBadChar, BtcBadHead,
     SolMin, SolShort, SolLong, SolBadChar,
     Bech32Min, Bech32Short, <<>>, Undefined}

ValidateChains ==
    {Ethereum, PolygonCap, Arbitrum, Optimism, Base, <<"E","T","H">>, <<"m","a","t","i","c">>,
     Bitcoin, <<"b","t","c">>, Solana, <<"S","O","L">>, Sui, <<"S","U","I">>, Aptos, Doge, <<"e","t","h","e","r","e","u","m","x">>,
     <<>>, Undefined}

ValidatePayloads ==
    [user_id : {1}, label : {LabelMy, Undefined},
     address : {EthUpper, EthShort, <<>>, Undefined},
     chain : {Ethereum, Doge, <<>>, LabelBlank, Undefined}]

NextValidate ==
    \/ \E impl \in {"utils", "service"}, a \in ValidateAddresses,
          c \in ValidateChains : ValidateAddressByChain(impl, a, c)
    \/ \E d \in ValidatePayloads : ValidateWalletData(d)

SpecValidate == Init /\ [][NextValidate]_vars

----------------------------------------------------------------------------
(* Claims about the wallet service *)

SameKey(w1, w2) ==
    /\ w1.userId = w2.userId
    /\ w1.address = w2.address
    /\ w1.chain = w2.chain

\* C1: after any sequence of createWallet, updateWallet and deleteWallet
\* calls, no two stored wallets have the same (owning user, stored address,
\* stored chain).
C1_UniqueWalletKey ==
    \A w1, w2 \in wallets : SameKey(w1, w2) => w1.id = w2.id

\* C3: every stored wallet's address satisfies the address-shape rule of its
\* stored chain, in every reachable state.
C3_StoredAddressHasShape ==
    \A w \in wallets : validateAddressByChain(w.address, w.chain) = Null

AddressFormatErrors ==
    {"Invalid SUI address format", "Invalid Ethereum address format",
     "Invalid Bitcoin address format", "Invalid Solana address format",
     "Invalid Aptos address format", "Unsupported blockchain chain"}

\* the address and the chain a successful patch leaves stored
finalAddress(w, updates) ==
    IF updates.address # Undefined THEN updateData(updates).address
    ELSE w.address
finalChain(w, updates) ==
    IF updates.chain # Undefined THEN updateData(updates).chain ELSE w.chain

\* a patch of an existing wallet that reaches the address-shape checks: it
\* changes address or chain, and its label, address and chain pass the
\* checks that do not look at the shape
ReachesShapeCheck(w, updates) ==
    /\ updates.address # Undefined \/ updates.chain # Undefined
    /\ updates.label # Undefined => updateData(updates).label # <<>>
    /\ updates.address # Undefined => updateData(updates).address # <<>>
    /\ updates.chain # Undefined =>
            updateData(updates).chain \in supportedChains

\* C4: updateWallet validates the address that will be stored against the
\* chain that will be stored: a patch that reaches the shape checks is
\* rejected with an address-format error exactly when the final address
\* does not have the shape of the final chain (for a stored wallet whose own
\* address has the shape of its chain).
C4_ValidatesFinalPair ==
    \A w \in wallets, u \in ShapePatches :
        ( /\ validateAddressByChain(w.address, w.chain) = Null
          /\ ReachesShapeCheck(w, u) ) =>
            ( updateWalletResult(w.id, u) \in AddressFormatErrors
              <=> validateAddressByChain(finalAddress(w, u), finalChain(w, u))
                    # Null )

\* the user of the payload has a wallet with the payload's address and
\* chain, compared case-insensitively
HasSameWallet(d) ==
    \E w \in wallets :
        /\ w.userId = d.user_id
        /\ toLowerCase(w.address) = toLowerCase(d.address)
        /\ toLowerCase(w.chain) = toLowerCase(d.chain)

\* C5 as stated: createWallet for a user who already has a wallet with the
\* same address and chain, compared case-insensitively, fails with the
\* duplicate error.
C5_DuplicateAlwaysDuplicateError ==
    \A d \in WalletPayloads :
        HasSameWallet(d) => createWalletResult(d) = DuplicateWalletError

\* C5 amended: a createWallet whose payload passes field validation and
\* whose user exists fails with the duplicate error and inserts nothing when
\* that user already has a wallet with the same address and chain, compared
\* case-insensitively; otherwise (the same address on another chain, or for
\* another user) it succeeds and inserts the wallet.
C5_DuplicateRejectedElseInserted ==
    [][ \A d \in WalletPayloads :
          ( /\ d.user_id \in users
            /\ lastOp'.op = "createWallet"
            /\ validateWalletData(d) = <<>>
            /\ CreateWallet(d) )
          => IF HasSameWallet(d)
             THEN /\ lastOp'.res = DuplicateWalletError
                  /\ wallets' = wallets
             ELSE /\ lastOp'.res = "ok"
                  /\ \E w \in wallets' \ wallets :
                        /\ w.userId = d.user_id
                        /\ w.address = toLowerCase(d.address)
                        /\ w.chain = toLowerCase(d.chain)
                  /\ wallets \subseteq wallets' ]_vars

\* C5 witness: a duplicate was rejected while two users hold the same
\* address on the same chain
C5_Witness ==
    /\ lastOp.op = "createWallet"
    /\ lastOp.res = DuplicateWalletError
    /\ \E w1, w2 \in wallets :
            /\ w1.userId # w2.userId
            /\ w1.address = w2.address
            /\ w1.chain = w2.chain

\* C8: when updateWallet fails for any reason, the stored wallets are
\* unchanged: no field of the patch is written.
C8_FailedUpdateWritesNothing ==
    [][ (lastOp'.op = "updateWallet" /\ lastOp'.res # "ok")
            => wallets' = wallets ]_vars

\* C8 witness: a patch of a stored wallet was rejected as a duplicate
C8_Witness ==
    /\ lastOp.op = "updateWallet"
    /\ lastOp.res = DuplicateWalletError
    /\ wallets # {}

\* C9: every stored wallet has an address and a chain equal to their own
\* lower-cased, trimmed form and a non-empty label without leading or
\* trailing whitespace, in the letter case the caller gave.
C9_StoredNormalized ==
    \A w \in wallets :
        /\ w.address = trim(toLowerCase(w.address))
        /\ w.chain = trim(toLowerCase(w.chain))
        /\ w.label # <<>>
        /\ w.label = trim(w.label)
        /\ w.label \in {<<"M","y">>, LabelHot}

\* C9 witness: a wallet created from an upper-case address and patched with
\* a padded address, a capitalised chain and a label
C9_Witness ==
    \E w \in wallets :
        /\ w.address = <<"0","x">> \o Rep("c", EthHexLen)
        /\ w.chain = Polygon
        /\ w.label = LabelHot
        /\ w.updated_at # {}

----------------------------------------------------------------------------
(* Claims about the goal service *)

\* C2: no stored goal has a current_amount greater than its target_amount,
\* in every reachable state: createGoal, updateGoal and updateGoalProgress
\* each reject a request that would leave current_amount above
\* target_amount.
C2_CurrentWithinTarget ==
    \A g \in goals : ~Gt(g.current_amount, g.target_amount)

\* C6: deleteGoal on a stored goal that some stored goal references through
\* parent_goal_id is rejected and deletes nothing; on a stored goal that no
\* goal references (any more) it succeeds and removes exactly that goal.
C6_DeleteOnlyWithoutSubgoals ==
    [][ \A id \in GoalIds :
          (DeleteGoal(id) /\ GoalExists(id))
          => IF \E g \in goals : g.parent_goal_id = {id}
             THEN lastOp'.res = SubgoalsError /\ goals' = goals
             ELSE /\ lastOp'.res = "ok"
                  /\ goals' = {g \in goals : g.id # id}
                  /\ Cardinality(goals') = Cardinality(goals) - 1 ]_vars

\* C6 witness: a goal whose deletion was rejected because of its subgoal has
\* been deleted after the subgoal
C6_Witness ==
    /\ lastOp.op = "deleteGoal"
    /\ lastOp.res = "ok"
    /\ lastOp.id \in hadSubgoals
    /\ ~GoalExists(lastOp.id)

\* C7: updateGoalProgress(goal, n) on a stored goal succeeds exactly when n
\* is a number with 0 <= n <= the goal's stored target_amount; on success
\* it changes only current_amount and the update timestamp of that goal; on
\* rejection nothing is changed.
C7_ProgressUpdate ==
    [][ \A id \in GoalIds, n \in ProgressAmounts :
          (UpdateGoalProgress(id, n) /\ GoalExists(id))
          => LET g == CHOOSE x \in goals : x.id = id
             IN  /\ lastOp'.res = "ok"
                      <=> (IsNumber(n) /\ Le(Num(0), n)
                            /\ Le(n, g.target_amount))
                 /\ lastOp'.res = "ok" =>
                      goals' = (goals \ {g}) \cup
                          {[g EXCEPT !.current_amount = n,
                                     !.updated_at = now]}
                 /\ lastOp'.res # "ok" => goals' = goals ]_vars

\* the stored goals whose parent_goal_id names a goal that is not stored
Dangling(gs) ==
    {g \in gs : \E q \in g.parent_goal_id : ~\E h \in gs : h.id = q}

\* C11: a deleteGoal of a goal P running concurrently with a createGoal or
\* updateGoal that names P as parent_goal_id can interleave so that both
\* succeed: the deleteOne of a delete that has passed its subgoal check, the
\* insertOne of a create and the updateOne of an update that have passed
\* their parent check never look at the collection again, so each succeeds
\* and leaves a stored goal whose parent_goal_id references a deleted goal.
C11_RaceLeavesDanglingParent ==
    [][ \A p \in Procs :
          /\ (DeleteGoalDeleteOne(p) /\ GoalExists(req[p].id)
              /\ \E g \in goals : g.id # req[p].id
                                   /\ g.parent_goal_id = {req[p].id})
             => (pc'[p] = "ok" /\ Dangling(goals') # {})
          /\ (CreateGoalInsert(p)
              /\ \E q \in req[p].data.parent_goal_id : ~GoalExists(q))
             => (pc'[p] = "ok" /\ Dangling(goals') # {})
          /\ (UpdateGoalUpdateOne(p) /\ GoalExists(req[p].id)
              /\ \E q \in req[p].updates.parent_goal_id : ~GoalExists(q))
             => Dangling(goals') # {} ]_vars

\* C11 witness: a deleteGoal of goal 1 and a createGoal or updateGoal naming
\* goal 1 as parent both succeeded, and the stored goal references the
\* deleted goal
C11_Witness ==
    \E p, q \in Procs :
        /\ pc[p] = "ok" /\ req[p] = [op |-> "deleteGoal", id |-> 1]
        /\ pc[q] = "ok" /\ req[q].op \in {"createGoal", "updateGoal"}
        /\ ~GoalExists(1)
        /\ \E g \in goals : g.parent_goal_id = {1}

----------------------------------------------------------------------------
(* Claims about the cache service *)

KeyDocs(c, w, t) ==
    {d \in c.wallet_data : d.wallet_id = w /\ d.data_type = t}

\* C12 as stated: when storage is available, getWalletData(w, t) after
\* setWalletData(w, t, b) returns b, for every wallet id w.
C12_SetThenGetAnyId ==
    [][ \A w \in CacheWalletIds, t \in DataTypes, b \in Blobs :
          (SetWalletData(w, t, b) /\ Available(cache))
          => getWalletData(cache', w, t) = b ]_vars

\* C12 amended: when storage is available, for a well-formed wallet id w,
\* getWalletData(w, t) after setWalletData(w, t, b) returns b and a later
\* set on the same key replaces the earlier blob (one document per key); for
\* a malformed w the set is dropped and the get returns null;
\* getWalletData(w, t) after invalidateWalletData(w, t) returns null and no
\* error is raised; getMetadata(k) after setMetadata(k, m) returns m.
C12_SetThenGet ==
    [][ /\ \A w \in CacheWalletIds, t \in DataTypes, b \in Blobs :
             (SetWalletData(w, t, b) /\ Available(cache))
             => IF ObjectIdIsValid(w)
                THEN /\ getWalletData(cache', w, t) = b
                     /\ Cardinality(KeyDocs(cache', w, t)) = 1
                ELSE /\ getWalletData(cache', w, t) = Null
                     /\ cache'.wallet_data = cache.wallet_data
        /\ \A w \in CacheWalletIds, t \in DataTypes :
             (InvalidateWalletData(w, t) /\ Available(cache))
             => /\ getWalletData(cache', w, t) = Null
                /\ lastOp'.res = Returned
        /\ \A k \in CoinTypes, m \in Blobs :
             (SetMetadata(k, m) /\ Available(cache))
             => getMetadata(cache', k) = m ]_vars

\* C12 witness: with storage available, a get returned the second blob
\* written to a key whose first blob is still the value of another key
C12_Witness ==
    /\ lastOp = [op |-> "getWalletData", avail |-> TRUE, res |-> "blob2"]
    /\ \E d \in cache.wallet_data : d.data = "blob1"
    /\ \E d \in cache.metadata : d.metadata = "blob2"

CollectionsUnchanged ==
    /\ cache'.wallet_data = cache.wallet_data
    /\ cache'.metadata = cache.metadata

\* C13: when the storage collaborator is unavailable (no URI configured,
\* connection failure, or an operation throwing), getWalletData and
\* getMetadata return null, setWalletData, setMetadata, setBatchMetadata and
\* invalidateWalletData complete without effect, and no cache operation
\* ever raises an error to its caller.
C13_UnavailableNeverRaises ==
    [][ /\ \A w \in CacheWalletIds, t \in DataTypes :
             GetWalletData(w, t)
             => /\ lastOp'.res # Threw
                /\ ~Available(cache) => lastOp'.res = Null
        /\ \A k \in CoinTypes :
             GetMetadata(k)
             => /\ lastOp'.res # Threw
                /\ ~Available(cache) => lastOp'.res = Null
        /\ \A w \in CacheWalletIds, t \in DataTypes, b \in Blobs :
             SetWalletData(w, t, b)
             => /\ lastOp'.res = Returned
                /\ ~Available(cache) => CollectionsUnchanged
        /\ \A w \in CacheWalletIds, t \in DataTypes \cup {Undefined} :
             InvalidateWalletData(w, t)
             => /\ lastOp'.res = Returned
                /\ ~Available(cache) => CollectionsUnchanged
        /\ \A k \in CoinTypes, m \in Blobs :
             SetMetadata(k, m)
             => /\ lastOp'.res = Returned
                /\ ~Available(cache) => CollectionsUnchanged
        /\ \A mm \in MetadataMaps :
             SetBatchMetadata(mm)
             => /\ lastOp'.res = Returned
                /\ ~Available(cache) => CollectionsUnchanged ]_vars

\* C13 witness: a get of a cached key returned null because the store, once
\* connected, had stopped answering
C13_Witness ==
    /\ lastOp = [op |-> "getWalletData", avail |-> FALSE, res |-> Null]
    /\ cache.uri /\ cache.isConnected /\ ~cache.up
    /\ cache.wallet_data # {}

\* C13 witness without MONGODB_URI: a set completed and nothing is stored
C13_WitnessNoUri ==
    /\ lastOp = [op |-> "setWalletData", avail |-> FALSE, res |-> Returned]
    /\ ~cache.uri
    /\ cache.wallet_data = {}

----------------------------------------------------------------------------
(* Claims about the address validators *)

\* the shape rules an address of SpecValidate has, by its construction
Fits(address) ==
    CASE address \in {EthUpper} -> {"eth"}
      [] address \in {SuiAddr} -> {"sui"}
      [] address \in {BtcUpperL} -> {"btc"}
      [] address \in {BtcMax} -> {"btc", "sol"}
      [] address \in {SolMin} -> {"sol"}
      [] address \in {Bech32Min} -> {"bech32"}
      [] OTHER -> {}

\* the rule of a chain name of SpecValidate: its canonical chain's, with the
\* letter case ignored and the aliases folded
RuleOf(chain) ==
    CASE chain \in {Ethereum, PolygonCap, Arbitrum, Optimism, Base} -> "eth"
      [] chain \in {<<"E","T","H">>, <<"m","a","t","i","c">>} -> "eth"
      [] chain \in {Bitcoin, <<"b","t","c">>} -> "btc"
      [] chain \in {Solana, <<"S","O","L">>} -> "sol"
      [] chain \in {Sui, <<"S","U","I">>, Aptos} -> "sui"
      [] OTHER -> "none"

IsAlias(chain) ==
    chain \in {<<"E","T","H">>, <<"m","a","t","i","c">>, <<"b","t","c">>,
               <<"S","O","L">>}

UnsupportedReasons ==
    {"Unsupported blockchain network", "Unsupported blockchain chain"}

NonEmpty(x) == x # <<>> /\ x # Undefined

\* C14 as stated, for both validators: validateAddressByChain(address,
\* chain) returns null exactly when chain, matched case-insensitively with
\* aliases folded, is a supported chain and address matches that chain's
\* rule (base58 for bitcoin); any unsupported chain yields the
\* unsupported-chain reason.
C14_BothValidators ==
    (lastOp.op = "validateAddressByChain"
        /\ NonEmpty(lastOp.address) /\ NonEmpty(lastOp.chain))
    => /\ lastOp.res = Null <=> RuleOf(lastOp.chain) \in Fits(lastOp.address)
       /\ lastOp.res \in UnsupportedReasons <=> RuleOf(lastOp.chain) = "none"

\* C14 amended: the shared validator (utils/validation) returns null
\* exactly when chain, matched case-insensitively with aliases folded, is a
\* supported chain and address matches that chain's rule; the wallet-service
\* validator does so for the nine chain names without aliases (an alias is
\* an unsupported chain to it) and accepts bech32 addresses for bitcoin as
\* well; an address one character too short or too long, or with a
\* character outside the alphabet, yields a reason, and an unsupported chain
\* yields the unsupported-chain reason whatever the address is.
C14_EachValidator ==
    (lastOp.op = "validateAddressByChain"
        /\ NonEmpty(lastOp.address) /\ NonEmpty(lastOp.chain))
    => LET rule == IF lastOp.impl = "service" /\ IsAlias(lastOp.chain)
                   THEN "none" ELSE RuleOf(lastOp.chain)
           fits == IF lastOp.impl = "service" /\ rule = "btc"
                   THEN {"btc", "bech32"} ELSE {rule}
       IN  /\ lastOp.res = Null <=> fits \cap Fits(lastOp.address) # {}
           /\ lastOp.res \in UnsupportedReasons <=> rule = "none"
           /\ lastOp.res # TypeError

\* C14 witness: the shared validator accepted the longest bitcoin address
\* under an alias
C14_Witness ==
    lastOp = [op |-> "validateAddressByChain", impl |-> "utils",
              address |-> BtcMax, chain |-> <<"b","t","c">>, res |-> Null]

RequiredReasons ==
    {"Wallet address is required", "Blockchain chain is required",
     "Address is required", "Chain is required"}

\* C15: an empty or undefined address or chain yields a required-field
\* reason, not a regex-failure reason and not an exception: for
\* validate(address, chain) and for validateWalletData.
C15_EmptyIsRequiredField ==
    /\ (lastOp.op = "validateAddressByChain" /\ lastOp.impl = "utils"
            /\ (~NonEmpty(lastOp.address) \/ ~NonEmpty(lastOp.chain)))
       => lastOp.res \in RequiredReasons
    /\ (lastOp.op = "validateWalletData"
            /\ (~NonEmpty(lastOp.data.address) \/ ~NonEmpty(lastOp.data.chain)))
       => /\ ~lastOp.threw
          /\ \E i \in DOMAIN lastOp.res : lastOp.res[i] \in RequiredReasons
          /\ \A i \in DOMAIN lastOp.res :
                lastOp.res[i] \notin AddressFormatErrors

\* bc1 followed by 39 to 59 lower-case letters or digits
IsBech32(a) ==
    /\ Len(a) >= 3 + Bech32MinLen
    /\ Len(a) <= 3 + Bech32MaxLen
    /\ a[1] = "b" /\ a[2] = "c" /\ a[3] = "1"
    /\ \A i \in 4..Len(a) : a[i] \in LowerChars \cup DigitChars

\* C23: on each of the nine supported chain names the wallet-service
\* validator and the shared validator give the same valid/invalid verdict
\* for every address, except that for bitcoin the wallet-service validator
\* also accepts bech32 addresses.
C23_SameVerdictButBech32 ==
    (/\ lastOp.op = "validateAddressByChain"
     /\ NonEmpty(lastOp.address) /\ NonEmpty(lastOp.chain)
     /\ toLowerCase(lastOp.chain) \in supportedChains)
    => LET a       == lastOp.address
           c       == lastOp.chain
           service == validateAddressByChain(a, c) = Null
           shared  == utilsValidateAddressByChain(a, c) = Null
       IN  /\ lastOp.res = Null
                <=> (IF lastOp.impl = "service" THEN service ELSE shared)
           /\ service
                <=> (shared \/ (toLowerCase(c) = Bitcoin /\ IsBech32(a)))
           /\ shared => service

\* C23 witness: the wallet-service validator accepted a bech32 address for
\* bitcoin, which the shared validator rejects
C23_Witness ==
    /\ lastOp = [op |-> "validateAddressByChain", impl |-> "service",
                 address |-> Bech32Min, chain |-> Bitcoin, res |-> Null]
    /\ utilsValidateAddressByChain(Bech32Min, Bitcoin) # Null

(* Claims about the duplicate check of updateWallet *)

\* another stored wallet of the owner of w has the pair the patch leaves
OtherWalletWithFinalPair(w, updates) ==
    \E o \in wallets :
        /\ o.id # w.id
        /\ o.userId = w.userId
        /\ o.address = finalAddress(w, updates)
        /\ o.chain = finalChain(w, updates)

\* C18: an updateWallet that changes address or chain and passes the field
\* checks is rejected as a duplicate if and only if another wallet of the
\* same user has the final normalized address and chain; the wallet being
\* updated is not counted.
C18_DuplicateOnUpdateIffSameUser ==
    [][ \A id \in WalletIds, u \in WalletPatches :
          (/\ lastOp'.op = "updateWallet"
           /\ lastOp'.res \in {"ok", DuplicateWalletError}
           /\ \E w \in wallets : w.id = id
           /\ ~Falsy(u.address) \/ ~Falsy(u.chain)
           /\ UpdateWallet(id, u))
          => LET w == CHOOSE x \in wallets : x.id = id
             IN  lastOp'.res = DuplicateWalletError
                    <=> OtherWalletWithFinalPair(w, u) ]_vars

(* Claims about the checks of createWallet *)

\* the payload has a field error: a field is missing or blank, the chain is
\* not supported, or the address has not the shape of the chain
FieldError(d) ==
    \/ Falsy(d.label) \/ Falsy(d.address) \/ Falsy(d.chain)
    \/ validateWalletData(d) # <<>>

\* C20: createWallet checks field validation, user existence and duplicate
\* in this order: a payload with any field error fails with 'Validation
\* failed' even when the user does not exist; 'User not found' is reported
\* only when every field check passes; the duplicate error only when the
\* fields are valid and the user exists; a failing createWallet inserts no
\* wallet.
C20_CreateWalletChecksInOrder ==
    [][ \A d \in CreatePayloads :
          (lastOp'.op = "createWallet" /\ CreateWallet(d))
          => /\ FieldError(d) => lastOp'.res = "Validation failed"
             /\ lastOp'.res = "User not found" => ~FieldError(d)
             /\ lastOp'.res = DuplicateWalletError
                    => ~FieldError(d) /\ d.user_id \in users
             /\ lastOp'.res # "ok" => wallets' = wallets ]_vars

(* Claims about the derived progress percentage *)

\* round(100 * c / t) for integers c >= 0 and t > 0, a half rounds up
Rounded(c, t) == (200 * c + t) \div (2 * t)

\* the percentage the claim gives a stored goal
Expected(g) == Num(Rounded(g.current_amount.v, g.target_amount.v))

\* C16: the progress_percentage returned by createGoal, getGoalById,
\* getUserGoals, updateGoal and updateGoalProgress equals
\* round(100 * current_amount / target_amount) of the stored values, a half
\* rounding up, whatever the stored advisory progress field is, and equal
\* amounts give 100.
C16_PercentageIsRounded ==
    /\ (/\ lastOp.op \in {"createGoal", "getGoalById", "updateGoal",
                          "updateGoalProgress"}
        /\ lastOp.res = "ok")
       => \A g \in goals :
            g.id = lastOp.id => lastOp.progress_percentage = Expected(g)
    /\ (lastOp.op = "getUserGoals" /\ lastOp.res = "ok")
       => /\ \A r \in lastOp.list :
                \E g \in goals : g.id = r.id /\ g.user_id = lastOp.id
                                  /\ r.progress_percentage = Expected(g)
          /\ \A g \in goals :
                g.user_id = lastOp.id => \E r \in lastOp.list : r.id = g.id

(* Claims about the checks of createGoal and updateGoal *)

\* the parent goal the payload names is missing from the collection
ParentMissing(d) == \E p \in d.parent_goal_id : ~\E g \in goals : g.id = p

C19_TextFieldsNonEmpty ==
    \A g \in goals :
        /\ ~Falsy(g.name) /\ Len(trim(g.name)) > 0
        /\ ~Falsy(g.coin) /\ Len(trim(g.coin)) > 0
        /\ ~Falsy(g.coin_symbol) /\ Len(trim(g.coin_symbol)) > 0

\* the wallet-data entries invalidateWalletData(w, t) is to remove: the
\* entry keyed (w, t), or every entry of wallet w when t is left out
Invalidated(w, t) ==
    {d \in cache.wallet_data :
        d.wallet_id = w /\ (Falsy(t) \/ d.data_type = t)}

\* C22: invalidateWalletData(w, t) removes only the wallet-data entry keyed
\* (w, t), and invalidateWalletData(w) without a data type every wallet-data
\* entry of wallet w (all of them when storage is available, none when it
\* is not); the entries of other wallets, the other entries of w and all
\* metadata-cache entries are unchanged.
C22_InvalidateRemovesOnlyItsKey ==
    [][ \A w \in InvalidateWalletIds, t \in DataTypes \cup {Undefined, <<>>} :
          InvalidateWalletData(w, t)
          => /\ cache'.wallet_data =
                    IF Available(cache)
                    THEN cache.wallet_data \ Invalidated(w, t)
                    ELSE cache.wallet_data
             /\ cache'.metadata = cache.metadata ]_vars

\* C22 witness: an entry has been invalidated by its key while another
\* entry of the same wallet, an entry of another wallet and a metadata entry
\* are cached
C22_Witness ==
    /\ lastOp.op = "invalidateWalletData"
    /\ lastOp.avail
    /\ lastOp.dataType = Holdings
    /\ ~\E d \in cache.wallet_data :
            d.wallet_id = lastOp.walletId /\ d.data_type = Holdings
    /\ \E d \in cache.wallet_data :
            d.wallet_id = lastOp.walletId /\ d.data_type = Transactions
    /\ \E d \in cache.wallet_data : d.wallet_id # lastOp.walletId
    /\ cache.metadata # {}

(* Claims about the storage connection *)

\* C21: while it has not been disconnected, a service instance performs a
\* connect at most once, also when several requests reach ensureConnection
\* (or the cache's connect) before the first connect has completed: no
\* instance ever holds two connected clients.
C21_ConnectedAtMostOnce ==
    \A s \in Services : Cardinality(conn[s].opened) <= 1

----------------------------------------------------------------------------
(* SpecById: wallets and goals read, updated and deleted by id; the ids    *)
(* are malformed (0), well-formed and unknown, or stored.                  *)

ByIdWalletPayloads ==
    [user_id : {1}, address : {EthUpper}, label : {LabelMy},
     chain : {Ethereum, PolygonCap}]

ByIdWalletPatches ==
    [label : {Undefined, LabelHot}, address : {Undefined},
     chain : {Undefined}]

ByIdGoalPayloads ==
    [ user_id : {1}, name : {GoalName}, coin : {CoinName},
      coin_symbol : {CoinSym}, current_amount : {Num(250)},
      target_amount : {Num(1000)}, goal_type : {Regular},
      parent_goal_id : {{}}, progress : {0} ]

ByIdGoalPatches ==
    {[EmptyPatch EXCEPT !.fields = {"current_amount"}, !.current_amount = c] :
        c \in {Num(500), Num(1500)}}

NextById ==
    \/ \E d \in ByIdWalletPayloads : CreateWallet(d)
    \/ \E id \in WalletIds : GetWalletById(id)
    \/ \E id \in WalletIds, u \in ByIdWalletPatches : UpdateWallet(id, u)
    \/ \E id \in WalletIds : DeleteWallet(id)
    \/ \E d \in ByIdGoalPayloads : CreateGoal(d)
    \/ \E id \in GoalIds : GetGoalById(id)
    \/ \E id \in GoalIds, u \in ByIdGoalPatches : UpdateGoal(id, u)
    \/ \E id \in GoalIds : DeleteGoal(id)

SpecById == Init /\ [][NextById]_vars

(* Claims about operations by id *)

WalletByIdOps == {"getWalletById", "updateWallet", "deleteWallet"}
GoalByIdOps   == {"getGoalById", "updateGoal", "deleteGoal"}

\* the document the operation op addresses by id is in its collection
StoredById(op, id) ==
    IF op \in WalletByIdOps THEN \E w \in wallets : w.id = id
    ELSE GoalExists(id)

InvalidIdError(op) ==
    IF op \in WalletByIdOps THEN "Invalid wallet ID format"
    ELSE "Invalid goal ID format"

NotFoundError(op) ==
    IF op \in WalletByIdOps THEN "Wallet not found" ELSE "Goal not found"

\* C24: get, update and delete by id of a wallet or a goal end with the
\* 'Invalid ... ID format' error exactly when the id fails the shape check,
\* whatever is stored and with nothing written; a well-formed id that is
\* not stored ends as not found instead (null from get, the 'not found'
\* error from update and delete); the GET routes answer 500 to the
\* malformed id and 404 to the unknown one.
C24_InvalidIdBeforeLookup ==
    [][ lastOp'.op \in WalletByIdOps \cup GoalByIdOps
          => LET op == lastOp'.op
                 id == lastOp'.id
                 isGet == op \in {"getWalletById", "getGoalById"}
             IN  /\ (lastOp'.res = InvalidIdError(op))
                        <=> ~ObjectIdIsValid(id)
                 /\ ~ObjectIdIsValid(id)
                        => /\ UNCHANGED <<wallets, goals>>
                           /\ isGet => lastOp'.status = 500
                 /\ (ObjectIdIsValid(id) /\ ~StoredById(op, id))
                        => /\ UNCHANGED <<wallets, goals>>
                           /\ IF isGet
                              THEN /\ lastOp'.res = "ok"
                                   /\ ~lastOp'.found
                                   /\ lastOp'.status = 404
                              ELSE lastOp'.res = NotFoundError(op) ]_vars

\* C24 witness: with a wallet and a goal stored, GET of a wallet by a
\* malformed id has answered 500 with the id format error
C24_Witness ==
    /\ lastOp.op = "getWalletById"
    /\ lastOp.id = 0
    /\ lastOp.res = "Invalid wallet ID format"
    /\ lastOp.status = 500
    /\ wallets # {}
    /\ goals # {}

----------------------------------------------------------------------------
(* SpecCollect: wallets and goals created from payloads on which no, one   *)
(* or several field checks fail; a text field is given, blank, empty or    *)
(* left out, the amounts are in range, negative, zero or crossed.          *)

CollectWalletPayloads ==
    [user_id : {1}, address : {EthUpper, ShortAddr, <<>>},
     label : {LabelMy, LabelBlank},
     chain : {Ethereum, Doge, <<>>, Undefined}]

CollectGoalPayloads ==
    [ user_id : {1}, name : {GoalName, Blank}, coin : {CoinName},
      coin_symbol : {CoinSym, Undefined},
      current_amount : {Num(250), Num(1500), Num(0 - 1)},
      target_amount : {Num(1000), Num(0)},
      goal_type : {Regular}, parent_goal_id : {{}}, progress : {0} ]

NextCollect ==
    \/ \E d \in CollectWalletPayloads : CreateWallet(d)
    \/ \E id \in WalletIds : DeleteWallet(id)
    \/ \E d \in CollectGoalPayloads : CreateGoal(d)
    \/ \E id \in GoalIds : DeleteGoal(id)

SpecCollect == Init /\ [][NextCollect]_vars

(* Claims about the collected validation errors *)

Items(seq) == {seq[i] : i \in 1..Len(seq)}

\* the required-field checks of a wallet payload that fail
RequiredWalletErrors(d) ==
    {m \in {"Wallet label is required", "Wallet address is required",
            "Blockchain chain is required"} :
        \/ m = "Wallet label is required"
              /\ (Falsy(d.label) \/ Len(trim(d.label)) = 0)
        \/ m = "Wallet address is required"
              /\ (Falsy(d.address) \/ Len(trim(d.address)) = 0)
        \/ m = "Blockchain chain is required"
              /\ (Falsy(d.chain) \/ Len(trim(d.chain)) = 0)}

\* the amount checks of a goal payload that fail
AmountGoalErrors(d) ==
    {m \in {"Current amount must be a non-negative number",
            "Target amount must be a positive number",
            "Current amount cannot exceed target amount"} :
        \/ m = "Current amount must be a non-negative number"
              /\ (~IsNumber(d.current_amount) \/ Lt(d.current_amount, Num(0)))
        \/ m = "Target amount must be a positive number"
              /\ (~IsNumber(d.target_amount) \/ Le(d.target_amount, Num(0)))
        \/ m = "Current amount cannot exceed target amount"
              /\ Gt(d.current_amount, d.target_amount)}

\* C25: createWallet and createGoal of a payload on which field checks fail
\* end with one 'Validation failed' error whose message lists every failed
\* check, the items joined with ', ': each failed required-field check of a
\* wallet is in the list, and for a goal 'Current amount cannot exceed
\* target amount' is listed next to a failed individual amount check.
C25_AllFailedChecksListed ==
    [][ /\ \A d \in CollectWalletPayloads :
              (CreateWallet(d) /\ RequiredWalletErrors(d) # {})
                 => /\ lastOp'.res = "Validation failed"
                    /\ RequiredWalletErrors(d) \subseteq Items(lastOp'.message)
                    /\ lastOp'.message =
                          validationMessage(validateWalletData(d))
        /\ \A d \in CollectGoalPayloads :
              (CreateGoal(d) /\ AmountGoalErrors(d) # {})
                 => /\ lastOp'.res = "Validation failed"
                    /\ AmountGoalErrors(d) \subseteq Items(lastOp'.message)
                    /\ lastOp'.message =
                          validationMessage(validateGoalData(d)) ]_vars

\* the goal part of C25 alone: the amount checks of createGoal are all
\* listed in the one 'Validation failed' message
C25_GoalChecksListed ==
    [][ \A d \in CollectGoalPayloads :
              (CreateGoal(d) /\ AmountGoalErrors(d) # {})
                 => /\ lastOp'.res = "Validation failed"
                    /\ AmountGoalErrors(d) \subseteq Items(lastOp'.message)
                    /\ lastOp'.message =
                          validationMessage(validateGoalData(d)) ]_vars

(* Claims about the goal tree *)

\* C26: with requests run one at a time, after any sequence of createGoal,
\* updateGoal and deleteGoal every stored goal's non-null parent_goal_id
\* references a goal that is currently stored.
C26_ParentsAreStored ==
    \A g \in goals : \A q \in g.parent_goal_id : GoalExists(q)

\* C26 witness: a stored goal references its stored parent after deleteGoal
\* of that parent has been refused
C26_Witness ==
    /\ lastOp.op = "deleteGoal"
    /\ lastOp.res = SubgoalsError
    /\ \E g \in goals : g.parent_goal_id = {lastOp.id}
    /\ GoalExists(lastOp.id)

\* the ids reached from the ids in ids by following parent_goal_id up to k
\* times
RECURSIVE Ancestors(_, _)
Ancestors(ids, k) ==
    IF k = 0 THEN ids
    ELSE Ancestors(ids \cup UNION {g.parent_goal_id :
                                      g \in {h \in goals : h.id \in ids}},
                   k - 1)

\* C27: after any sequence of createGoal, updateGoal and deleteGoal the
\* parent_goal_id relation has no cycle: no stored goal is its own parent
\* or ancestor.
C27_NoParentCycle ==
    \A g \in goals :
        g.id \notin Ancestors(g.parent_goal_id, Cardinality(goals))

----------------------------------------------------------------------------
(* SpecRetry: withRetry calls with the default options, with maxRetries    *)
(* from 0 to the default, and with a retry condition of the caller; fn     *)
(* returns or throws on each call.                                         *)

NextRetry ==
    \/ \E m \in 0..defaultMaxRetries, c \in {"default", "always"} :
            WithRetryBegin(m, c)
    \/ \E v \in {"wallet", Null} : FnReturns(v)
    \/ \E e \in ThrownValues : FnThrows(e)
    \/ DelayResolves

SpecRetry == Init /\ [][NextRetry]_vars

(* Claims about withRetry *)

\* C28: withRetry with the default retry condition calls fn once: when
\* that call throws, whatever the thrown value, its classification has
\* isRetryable false, no delay is awaited, fn is not called again and the
\* classified error is thrown to the caller; when the call returns, its
\* result is returned after that single call.
C28_DefaultConditionNeverRetries ==
    retry.condition = "default"
      => /\ retry.calls <= 1
         /\ retry.delays = 0
         /\ retry.pc # "delay"
         /\ \A e \in retry.lastError : ~e.isRetryable
         /\ retry.calls = 1
              => /\ retry.pc = "idle"
                 /\ IF retry.fnThrew = {}
                    THEN /\ retry.outcome = "returned"
                         /\ retry.fnReturned = {retry.result}
                    ELSE /\ retry.outcome = "threw"
                         /\ retry.thrown =
                              {classifyError(e, "unknown") : e \in retry.fnThrew}

\* C28 witness: with the default options fn has thrown an object whose
\* isRetryable is true, and withRetry has thrown its classification after
\* that one call
C28_Witness ==
    /\ retry.condition = "default"
    /\ retry.maxRetries = defaultMaxRetries
    /\ retry.outcome = "threw"
    /\ retry.calls = 1
    /\ \E e \in retry.fnThrew : e.isRetryable

----------------------------------------------------------------------------
(* SpecUser: users created and updated; the requests differ in the         *)
(* username and the email, which are new or those of a stored user.        *)

UserPayloads ==
    [username : {Alice, Carol}, email : {BobEmail, CarolEmail}]

UserPatches ==
    [username : {NoValue, Alice, Carol}, email : {NoValue, AliceEmail}]

NextUser ==
    \/ \E d \in UserPayloads : CreateUser(d)
    \/ \E id \in 0..MaxUsers, u \in UserPatches : UpdateUser(id, u)

SpecUser == Init /\ [][NextUser]_vars

(* Claims about the users collection *)

\* C29: with requests run one at a time, after any sequence of createUser
\* and updateUser no two stored users have the same email and no two
\* stored users have the same username.
C29_UsernameAndEmailUnique ==
    \A a, b \in DOMAIN userDocs :
        a # b => /\ userDocs[a].email # userDocs[b].email
                 /\ userDocs[a].username # userDocs[b].username

\* the createUser part of C29 alone: a createUser that succeeds leaves the
\* new user's username and email different from those of every user that
\* was stored before
C29_CreateUserKeepsUnique ==
    [][ (lastOp'.op = "createUser" /\ lastOp'.res = "ok")
          => \A a \in DOMAIN userDocs :
                /\ userDocs'[lastOp'.id].email # userDocs[a].email
                /\ userDocs'[lastOp'.id].username # userDocs[a].username ]_vars

----------------------------------------------------------------------------
(* SpecClock: wallets created, updated and read at different times.        *)

ClockPayloads ==
    [user_id : {1}, address : {EthUpper}, label : {LabelMy},
     chain : {Ethereum, PolygonCap}]

ClockPatches ==
    [label : {Undefined, LabelHot, LabelBlank}, address : {Undefined},
     chain : {Undefined}]

NextClock ==
    \/ \E d \in ClockPayloads : CreateWallet(d)
    \/ \E id \in WalletIds, u \in ClockPatches : UpdateWallet(id, u)
    \/ \E id \in WalletIds : GetWalletById(id)
    \/ Tick

SpecClock == Init /\ [][NextClock]_vars

(* Claims about the wallet timestamps *)

\* C30: a successful updateWallet advances the wallet's updated-at time and
\* leaves created-at unchanged: the wallet updateWallet returns has
\* updatedAt equal to the time of this update and the createdAt the wallet
\* had, and a later getWalletById returns the updatedAt of the latest
\* successful update.
C30_UpdateAdvancesUpdatedAt ==
    [][ /\ (lastOp'.op = "updateWallet" /\ lastOp'.res = "ok")
            => /\ lastOp'.returned # {}
               /\ \A r \in lastOp'.returned :
                    /\ r.updatedAt = now
                    /\ \A w \in wallets :
                            w.id = r.id => r.createdAt = w.createdAt
        /\ (lastOp'.op = "getWalletById" /\ lastOp'.res = "ok")
            => \A r \in lastOp'.returned : \A w \in wallets :
                    w.id = r.id
                      => /\ r.createdAt = w.createdAt
                         /\ \A t \in w.updated_at : r.updatedAt = t ]_vars

\* the created-at part of C30 alone: updateWallet leaves createdAt of every
\* stored wallet as it was and returns it
C30_CreatedAtUnchanged ==
    [][ lastOp'.op = "updateWallet"
          => /\ \A w \in wallets : \E v \in wallets' :
                    v.id = w.id /\ v.createdAt = w.createdAt
             /\ \A r \in lastOp'.returned : \A w \in wallets :
                    w.id = r.id => r.createdAt = w.createdAt ]_vars

====
